---- MODULE Spec2Model ----
(***************************************************************************)
(* Model of the offline download manager of MoonTVPlus                     *)
(* (src/src/lib/offline-download-manager.ts): the task store, the          *)
(* persisted metadata file, the download directory, the cancellation       *)
(* token table and the asynchronous executions of startDownload.           *)
(*                                                                         *)
(* JavaScript runs one callback at a time: every action below is the       *)
(* synchronous code between two awaits (or event callbacks) of one         *)
(* operation.  Strings the code inspects character by character (URLs,     *)
(* playlist text, file names) are sequences of one-character strings.      *)
(***************************************************************************)
EXTENDS Integers, Sequences, FiniteSets, Bags, TLC

(***************************************************************************)
(* Bounds of the model.                                                    *)
(***************************************************************************)
\* number of task ids that addTask may generate
MaxTasks == 3
\* number of startDownload executions one process may start
MaxExecs == 2
\* number of events from outside: addTask / retryTask / deleteTask calls and
\* process restarts
MaxCalls == 2
\* number of process restarts
MaxRestarts == 1
\* largest number of segment lines of a served media playlist
MaxSegs == 2
\* largest content length (and body size) of a served direct file
MaxLen == 2

\* lines of a playlist body in the parsing specification
MaxLines == 3

(***************************************************************************)
(* Text helpers: String.prototype methods the code uses.                   *)
(***************************************************************************)
\* an absent error message
NoValue == "undefined"

\* null or undefined where the code expects a string: falsy like the empty string
Null == <<>>

StartsWith(s, p) == Len(s) >= Len(p) /\ SubSeq(s, 1, Len(p)) = p

EndsWith(s, p) == Len(s) >= Len(p) /\ SubSeq(s, Len(s) - Len(p) + 1, Len(s)) = p

Includes(s, p) == \E k \in 0..(Len(s) - Len(p)) : SubSeq(s, k + 1, k + Len(p)) = p

LowerChar(c) ==
  CASE c = "A" -> "a" [] c = "E" -> "e" [] c = "F" -> "f" [] c = "I" -> "i"
    [] c = "K" -> "k" [] c = "M" -> "m" [] c = "N" -> "n" [] c = "R" -> "r"
    [] c = "S" -> "s" [] c = "T" -> "t" [] c = "U" -> "u" [] c = "X" -> "x"
    [] OTHER -> c

ToLowerCase(s) == [k \in 1..Len(s) |-> LowerChar(s[k])]

WhiteSpace == {" ", "\t", "\r", "\n"}

\* s.trim()
Trim(s) ==
  LET ink == {k \in 1..Len(s) : s[k] \notin WhiteSpace} IN
  IF ink = {} THEN <<>>
  ELSE SubSeq(s, (CHOOSE k \in ink : \A j \in ink : k <= j),
                 (CHOOSE k \in ink : \A j \in ink : k >= j))

\* text.split('\n'): the pieces between line feeds, empty pieces included
SplitLines(s) ==
  LET feeds == {k \in 1..Len(s) : s[k] = "\n"}
      \* the position of the j-th line feed; 0 for j = 0, Len(s) + 1 past the last
      feed(j) == IF j = 0 THEN 0
                 ELSE IF j > Cardinality(feeds) THEN Len(s) + 1
                 ELSE CHOOSE k \in feeds : Cardinality({m \in feeds : m < k}) = j - 1
  IN  [j \in 1..(Cardinality(feeds) + 1) |-> SubSeq(s, feed(j - 1) + 1, feed(j) - 1)]

\* s.lastIndexOf('/') + 1 (0 when there is no slash)
LastSlash(s, k) ==
  LET slashes == {j \in 1..k : s[j] = "/"} IN
  IF slashes = {} THEN 0 ELSE CHOOSE j \in slashes : \A m \in slashes : j >= m

\* decimal digits of a natural number, as template strings print it
RECURSIVE NumberToString(_)
NumberToString(n) ==
  LET digits == <<"0", "1", "2", "3", "4", "5", "6", "7", "8", "9">> IN
  IF n < 10 THEN <<digits[n + 1]>>
  ELSE NumberToString(n \div 10) \o <<digits[(n % 10) + 1]>>

\* Math.round of the non-negative quotient a / b (b > 0): floor(a / b + 1/2)
MathRound(a, b) == (2 * a + b) \div (2 * b)

(***************************************************************************)
(* Inputs of the model: the task data callers submit and the bodies the    *)
(* remote server may answer with.                                          *)
(***************************************************************************)
HlsUrl == <<"h","t","t","p",":","/","/","h","/","a","/","x",".","M","3","U","8">>

FileUrl == <<"h","t","t","p",":","/","/","h","/","v",".","m","p","4">>

\* the keys getOfflineVideo is asked for: those of the task data below and one
\* that no task has
ProbeKeys ==
  { [source |-> <<"a">>, videoId |-> <<"b">>, episodeIndex |-> n] : n \in 0..2 }

\* the taskData records passed to addTask
TaskInputs ==
  { [url |-> HlsUrl, source |-> <<"a">>, videoId |-> <<"b">>, videoTitle |-> "t",
     episodeIndex |-> 0],
    [url |-> FileUrl, source |-> <<"a">>, videoId |-> <<"b">>, videoTitle |-> "t",
     episodeIndex |-> 1] }

L_EXTM3U == <<"#","E","X","T","M","3","U">>

L_INF == <<"#","E","X","T","-","X","-","S","T","R","E","A","M","-","I","N","F",":","B","=","1">>

L_MEDIA == <<"v","/","m",".","m","3","u","8">>

L_KEY == <<"#","E","X","T","-","X","-","K","E","Y",":","M","E","T","H","O","D","=",
           "A","E","S","-","1","2","8",",","U","R","I","=","\"","k","\"">>

SegLine(k) == <<"s">> \o NumberToString(k) \o <<".","t","s">>

RECURSIVE JoinLines(_)
JoinLines(ls) ==
  IF ls = <<>> THEN <<>>
  ELSE IF Len(ls) = 1 THEN ls[1]
  ELSE ls[1] \o <<"\n">> \o JoinLines(Tail(ls))

\* a media playlist with n segment lines
MediaText(n) == JoinLines(<<L_EXTM3U>> \o [k \in 1..n |-> SegLine(k - 1)])

\* a master playlist naming one rendition
MasterText == JoinLines(<<L_EXTM3U, L_INF, L_MEDIA>>)

\* a media playlist with a key declaration and one segment
KeyedText == JoinLines(<<L_EXTM3U, L_KEY, SegLine(0)>>)

\* n bytes of value b
Bytes(n, b) == [k \in 1..n |-> b]

\* the bodies the server answers a key request and a segment request with
KeyBodies == {Bytes(16, 1)}

SegBodies == {Bytes(16, 2)}

\* what a key or a segment request may be answered with in the decryption
\* specification: keys of the right and of a wrong length, segments of whole
\* blocks and others
CryptoKeys == {Bytes(16, 1), Bytes(15, 1), <<>>}

CryptoSegs == {Bytes(0, 2), Bytes(15, 2), Bytes(16, 2), Bytes(17, 2), Bytes(32, 2)}

\* key declarations: without an IV, with a 16-byte IV, with a one-byte IV,
\* without encryption, with a method other than AES-128
KeyLines ==
  { L_KEY,
    <<"#","E","X","T","-","X","-","K","E","Y",":","M","E","T","H","O","D","=","A","E","S","-","1","2","8",",","U","R","I","=","\"","k","\"",",","I","V","=","0","x","0","0","0","1","0","2","0","3","0","4","0","5","0","6","0","7","0","8","0","9","0","a","0","B","0","C","0","D","0","E","0","F">>,
    <<"#","E","X","T","-","X","-","K","E","Y",":","M","E","T","H","O","D","=","A","E","S","-","1","2","8",",","U","R","I","=","\"","k","\"",",","I","V","=","0","x","0","1">>,
    <<"#","E","X","T","-","X","-","K","E","Y",":","M","E","T","H","O","D","=","N","O","N","E">>,
    <<"#","E","X","T","-","X","-","K","E","Y",":","M","E","T","H","O","D","=","S","A","M","P","L","E","-","A","E","S",",","U","R","I","=","\"","k","\"">> }

\* media playlists with one key declaration and up to MaxSegs segments
CryptoTexts ==
  { JoinLines(<<k>> \o [j \in 1..n |-> SegLine(j - 1)]) : k \in KeyLines, n \in 1..MaxSegs }

\* the bodies the server may answer a playlist request with
Playlists == {MediaText(n) : n \in 0..MaxSegs} \cup {MasterText, KeyedText}

\* the addresses a media playlist is fetched from: new URL(url).href is the
\* string itself for each of them (lower-case scheme and host, a path); the
\* last one carries a signature with a "/" in its query
ParseUrls ==
  { HlsUrl,
    <<"h","t","t","p","s",":","/","/","h","/","a","/","x",".","m","3","u","8">>,
    <<"h","t","t","p",":","/","/","h","/","x",".","m","3","u","8","?","k","=","/","v">> }

\* the kinds of lines of a playlist body: absolute (http, https), "/"-rooted,
\* relative, comment, blank, relative with white space around it
ParseLines ==
  { <<"h","t","t","p",":","/","/","o","/","s">>,
    <<"h","t","t","p","s",":","/","/","o","/","s">>,
    <<"/","r">>, <<"s">>, <<"#","c">>, <<>>, <<" ","s","\r">> }

\* the lines of a master playlist: the stream-variant line, a comment, a
\* blank line, and references that are relative, absolute, scheme-relative
\* and "/"-rooted
MasterLines ==
  { L_INF, <<"#","c">>, <<>>, <<"s">>, L_MEDIA,
    <<"h","t","t","p","s",":","/","/","o","/","v","/","m">>,
    <<"/","/","o","/","m">>, <<"/","v","/","m">> }

\* the master playlist bodies of at most MaxLines lines
MasterTexts ==
  { text \in { JoinLines(ls) :
                  ls \in UNION { [1..k -> MasterLines] : k \in 1..MaxLines } } :
       Includes(text, L_INF) }

\* media playlist bodies with one segment and one key declaration, whose URI
\* is relative, "/"-rooted or absolute
KeyTexts ==
  { JoinLines(<<k, <<"s">>>>) :
      k \in { L_KEY,
              <<"#","E","X","T","-","X","-","K","E","Y",":","M","E","T","H","O","D","=","A","E","S","-","1","2","8",",","U","R","I","=","\"","/","k","\"">>,
              <<"#","E","X","T","-","X","-","K","E","Y",":","M","E","T","H","O","D","=","A","E","S","-","1","2","8",",","U","R","I","=","\"","h","t","t","p",":","/","/","o","/","k","\"">> } }

\* the playlist bodies of at most MaxLines lines
ParseTexts ==
  { JoinLines(ls) : ls \in UNION { [1..k -> ParseLines] : k \in 0..MaxLines } }

(***************************************************************************)
(* Playlist handling of downloadM3u8.                                      *)
(***************************************************************************)
STREAM_INF == <<"#","E","X","T","-","X","-","S","T","R","E","A","M","-","I","N","F">>

EXT_KEY == <<"#","E","X","T","-","X","-","K","E","Y",":">>

HTTP_PFX == <<"h","t","t","p",":","/","/">>

HTTPS_PFX == <<"h","t","t","p","s",":","/","/">>

DOT_M3U8 == <<".","m","3","u","8">>

DOT_TS == <<".","t","s">>

\* startDownload: task.url.toLowerCase().includes('.m3u8')
IsM3u8Url(url) == Includes(ToLowerCase(url), DOT_M3U8)

IsMasterPlaylist(text) == Includes(text, STREAM_INF)

\* the loop of lines 226-236: the first non-comment, non-blank line after a
\* stream-variant line; Null when there is none
RECURSIVE FindMediaLine(_, _)
FindMediaLine(lines, isNextLineUrl) ==
  IF lines = <<>> THEN Null
  ELSE LET trimmed == Trim(Head(lines)) IN
       IF StartsWith(trimmed, STREAM_INF) THEN FindMediaLine(Tail(lines), TRUE)
       ELSE IF isNextLineUrl /\ trimmed # <<>> /\ ~StartsWith(trimmed, <<"#">>)
            THEN trimmed
            ELSE FindMediaLine(Tail(lines), isNextLineUrl)

IsAbsolute(ref) == StartsWith(ref, HTTP_PFX) \/ StartsWith(ref, HTTPS_PFX)

\* new URL(url).protocol + '//' + new URL(url).host for an http(s) URL
RECURSIVE HostEnd(_, _)
HostEnd(url, k) == IF k > Len(url) \/ url[k] = "/" THEN k - 1 ELSE HostEnd(url, k + 1)

Origin(url) ==
  LET start == IF StartsWith(url, HTTPS_PFX) THEN Len(HTTPS_PFX) ELSE Len(HTTP_PFX)
  IN  SubSeq(url, 1, HostEnd(url, start + 1))

\* url.substring(0, url.lastIndexOf('/') + 1)
BaseUrl(url) == SubSeq(url, 1, LastSlash(url, Len(url)))

\* the end of the path of an address: the character before its query or fragment
RECURSIVE PathEnd(_, _)
PathEnd(url, k) ==
  IF k > Len(url) \/ url[k] \in {"?", "#"} THEN k - 1 ELSE PathEnd(url, k + 1)

\* new URL(ref, base).href for a reference made of plain path segments: the
\* query and fragment of base are dropped and ref replaces the last segment
\* of its path
UrlHref(ref, base) == SubSeq(base, 1, LastSlash(base, PathEnd(base, 1))) \o ref

\* lines 243-254: the media playlist reference against the master's URL
ResolveMediaUrl(ref, url) ==
  IF IsAbsolute(ref) THEN ref
  ELSE IF StartsWith(ref, <<"/">>) THEN Origin(url) \o ref
  ELSE UrlHref(ref, BaseUrl(url))

\* lines 313-329: one segment URL per non-comment, non-blank line
ResolveSegmentUrl(trimmed, url) ==
  IF IsAbsolute(trimmed) THEN trimmed
  ELSE IF StartsWith(trimmed, <<"/">>) THEN Origin(url) \o trimmed
  ELSE BaseUrl(url) \o trimmed

RECURSIVE SegmentUrls(_, _)
SegmentUrls(lines, url) ==
  IF lines = <<>> THEN <<>>
  ELSE LET trimmed == Trim(Head(lines)) IN
       IF trimmed # <<>> /\ ~StartsWith(trimmed, <<"#">>)
       THEN <<ResolveSegmentUrl(trimmed, url)>> \o SegmentUrls(Tail(lines), url)
       ELSE SegmentUrls(Tail(lines), url)

\* the text captured by /<prefix>([^<stop>]+)/ in s, or Null without a match
TakeUntil(s, k, stop) ==
  LET stops == {j \in k..Len(s) : s[j] = stop} IN
  IF stops = {} THEN SubSeq(s, k, Len(s))
  ELSE SubSeq(s, k, (CHOOSE j \in stops : \A m \in stops : j <= m) - 1)

\* the first match at or after position k
MatchFrom(s, prefix, stop, k) ==
  LET at == {j \in k..(Len(s) - Len(prefix)) :
               /\ SubSeq(s, j, j + Len(prefix) - 1) = prefix
               /\ TakeUntil(s, j + Len(prefix), stop) # <<>>}
  IN  IF at = {} THEN Null
      ELSE TakeUntil(s, (CHOOSE j \in at : \A m \in at : j <= m) + Len(prefix), stop)

\* trimmed.match(/METHOD=([^,]+)/)
MethodMatch(line) == MatchFrom(line, <<"M","E","T","H","O","D","=">>, ",", 1)

\* trimmed.match(/URI="([^"]+)"/): the closing quote must be there
UriMatch(line) ==
  LET m == MatchFrom(line, <<"U","R","I","=","\"">>, "\"", 1) IN
  IF m # Null /\ Includes(line, <<"U","R","I","=","\"">> \o m \o <<"\"">>)
  THEN m ELSE Null

AES_128 == <<"A","E","S","-","1","2","8">>

\* lines 277-310: the key URIs fetched while scanning the playlist, in order;
\* aesMethod keeps the value of the last METHOD seen
RECURSIVE KeyUris(_, _)
KeyUris(lines, aesMethod) ==
  IF lines = <<>> THEN <<>>
  ELSE LET trimmed == Trim(Head(lines)) IN
       IF StartsWith(trimmed, EXT_KEY)
       THEN LET method == IF MethodMatch(trimmed) # Null
                          THEN MethodMatch(trimmed) ELSE aesMethod
                uri    == UriMatch(trimmed)
            IN  IF method # Null /\ method # <<"N","O","N","E">> /\ uri # Null
                THEN <<uri>> \o KeyUris(Tail(lines), method)
                ELSE KeyUris(Tail(lines), method)
       ELSE KeyUris(Tail(lines), aesMethod)

\* lines 289-298: the address a key is downloaded from
ResolveKeyUrl(keyUrl, url) ==
  IF IsAbsolute(keyUrl) THEN keyUrl
  ELSE IF StartsWith(keyUrl, <<"/">>) THEN Origin(url) \o keyUrl
  ELSE BaseUrl(url) \o keyUrl

\* the key addresses requested while scanning a playlist fetched from url
KeyUrls(text, url) ==
  LET uris == KeyUris(SplitLines(text), Null) IN
  [k \in 1..Len(uris) |-> ResolveKeyUrl(uris[k], url)]

\* aesMethod after the key scan (lines 279-286): the METHOD of the last key
\* declaration that has one
AesMethod(text) ==
  LET lines == SplitLines(text)
      at == {k \in 1..Len(lines) : /\ StartsWith(Trim(lines[k]), EXT_KEY)
                                    /\ MethodMatch(Trim(lines[k])) # Null}
  IN  IF at = {} THEN Null
      ELSE MethodMatch(Trim(lines[CHOOSE k \in at : \A m \in at : k >= m]))

(***************************************************************************)
(* Buffers are sequences of bytes; a Buffer | null local is a record.      *)
(***************************************************************************)
NullBuffer == [null |-> TRUE, bytes |-> <<>>]

Buffer(bytes) == [null |-> FALSE, bytes |-> bytes]

\* the digits [0-9A-Fa-f]; the value of the digit at position v is (v - 1) % 16
HexChars ==
  <<"0","1","2","3","4","5","6","7","8","9","a","b","c","d","e","f",
    "0","1","2","3","4","5","6","7","8","9","A","B","C","D","E","F">>

HexValue(c) == ((CHOOSE v \in 1..32 : HexChars[v] = c) - 1) % 16

\* Buffer.from(hex, 'hex'): one byte per pair of digits, a last single digit
\* is dropped
FromHex(hex) ==
  [k \in 1..(Len(hex) \div 2) |-> 16 * HexValue(hex[2 * k - 1]) + HexValue(hex[2 * k])]

\* the run of hex digits of s from position k
HexRun(s, k) ==
  LET others == {j \in k..Len(s) : \A v \in 1..32 : HexChars[v] # s[j]} IN
  IF others = {} THEN SubSeq(s, k, Len(s))
  ELSE SubSeq(s, k, (CHOOSE j \in others : \A m \in others : j <= m) - 1)

IV_PFX == <<"I","V","=","0","x">>

\* trimmed.match(/IV=0x([0-9A-Fa-f]+)/): the digits captured, Null without a match
IvMatch(line) ==
  LET at == {j \in 1..(Len(line) - Len(IV_PFX)) :
               /\ SubSeq(line, j, j + Len(IV_PFX) - 1) = IV_PFX
               /\ HexRun(line, j + Len(IV_PFX)) # <<>>}
  IN  IF at = {} THEN Null
      ELSE HexRun(line, (CHOOSE j \in at : \A m \in at : j <= m) + Len(IV_PFX))

\* aesIV after the key scan (lines 288-307): set by the declarations whose key
\* is downloaded and that carry an IV
RECURSIVE KeyIv(_, _, _)
KeyIv(lines, aesMethod, aesIV) ==
  IF lines = <<>> THEN aesIV
  ELSE LET trimmed == Trim(Head(lines)) IN
       IF StartsWith(trimmed, EXT_KEY)
       THEN LET method == IF MethodMatch(trimmed) # Null
                          THEN MethodMatch(trimmed) ELSE aesMethod
            IN  IF method # Null /\ method # <<"N","O","N","E">> /\ UriMatch(trimmed) # Null
                   /\ IvMatch(trimmed) # Null
                THEN KeyIv(Tail(lines), method, Buffer(FromHex(IvMatch(trimmed))))
                ELSE KeyIv(Tail(lines), method, aesIV)
       ELSE KeyIv(Tail(lines), aesMethod, aesIV)

AesIv(text) == KeyIv(SplitLines(text), Null, NullBuffer)

\* an unsigned 32-bit number as its two 16-bit halves
UInt32(i) == [hi |-> i \div 65536, lo |-> i % 65536]

\* the four bytes with the least significant byte first
WriteUInt32LE(v) == <<v.lo % 256, v.lo \div 256, v.hi % 256, v.hi \div 256>>

\* buf.writeUInt32BE(value, offset): the four bytes written
WriteUInt32BE(v) == <<v.hi \div 256, v.hi % 256, v.lo \div 256, v.lo % 256>>

\* Buffer.alloc(16) with writeUInt32BE(segmentIndex, 12) (lines 397-399)
DefaultIv(segmentIndex) == [k \in 1..12 |-> 0] \o WriteUInt32BE(segmentIndex)

\* a segment buffer that was not decrypted
Raw(data) == [kind |-> "raw", bytes |-> data]

\* Buffer.concat([decipher.update(data), decipher.final()]) of aes-128-cbc
\* without padding: the plaintext of data under key and iv, as long as data
Plain(data, key, ivBuffer) == [kind |-> "plain", bytes |-> data, key |-> key, iv |-> ivBuffer]

\* the buffers of list joined last to first
BufferConcatReversed(list) ==
  LET Byte(b, k) == IF b.kind = "raw" THEN [raw |-> b.bytes[k]]
                    ELSE [plain |-> k, of |-> b]
      RECURSIVE Joined(_)
      Joined(l) == IF l = <<>> THEN <<>>
                   ELSE Joined(Tail(l)) \o [k \in 1..Len(Head(l).bytes) |-> Byte(Head(l), k)]
  IN  Joined(list)

\* Buffer.concat(list) (line 367): the bytes of the buffers one after another;
\* a byte of a segment that was not decrypted is its value, a byte of a
\* plaintext is named by its position in that plaintext
BufferConcat(list) ==
  LET Byte(b, k) == IF b.kind = "raw" THEN [raw |-> b.bytes[k]]
                    ELSE [plain |-> k, of |-> b]
      RECURSIVE Joined(_)
      Joined(l) == IF l = <<>> THEN <<>>
                   ELSE [k \in 1..Len(Head(l).bytes) |-> Byte(Head(l), k)] \o Joined(Tail(l))
  IN  Joined(list)

Threw == [threw |-> TRUE]

Returned(value) == [threw |-> FALSE, value |-> value]

\* the try block of decryptAES128 (lines 386-405); createDecipheriv throws on
\* a key or an IV that is not 16 bytes long
DecryptBody(data, key, iv, segmentIndex) ==
  IF Len(data) % 16 # 0 THEN Returned(Raw(data))
  ELSE LET ivBuffer == IF ~iv.null THEN iv.bytes ELSE DefaultIv(segmentIndex) IN
       IF Len(key) # 16 \/ Len(ivBuffer) # 16 THEN Threw
       ELSE Returned(Plain(data, key, ivBuffer))

\* the method without its catch: what the try block throws leaves the method
DecryptUncaught(data, key, iv, segmentIndex) == DecryptBody(data, key, iv, segmentIndex)

\* decryptAES128 (lines 384-411): the catch returns data
decryptAES128(data, key, iv, segmentIndex) ==
  IF DecryptBody(data, key, iv, segmentIndex).threw THEN Returned(Raw(data))
  ELSE DecryptBody(data, key, iv, segmentIndex)

\* the arguments decryptAES128 is applied to on its own: segments of whole
\* blocks or not, keys of 16 and 15 bytes, no IV, a 16-byte and a one-byte
\* IV, indexes with the 16-bit halves 0, 5, 255, 256 and 65535
DecryptArgs ==
  { [data |-> d, key |-> k, iv |-> iv, segmentIndex |-> [hi |-> a, lo |-> b]] :
       d \in {Bytes(0, 2), Bytes(15, 2), Bytes(16, 2)}, k \in {Bytes(16, 1), Bytes(15, 1)},
       iv \in {NullBuffer, Buffer(Bytes(16, 3)), Buffer(<<1>>)},
       a \in {0, 5, 255, 256, 65535}, b \in {0, 5, 255, 256, 65535} }

(***************************************************************************)
(* Task records and the files of the download directory.                   *)
(***************************************************************************)
Ids == 1..MaxTasks

ExecIds == 1..MaxExecs

\* handles of the task objects one process can hold: the objects addTask
\* builds and the objects init() parses from the metadata file
Objs == 1..(2 * MaxTasks)

DownloadDir == <<"d","/">>

\* a file name with the extension of a direct download
generateFileNameMp4(source, videoId, episodeIndex) ==
  source \o <<"_">> \o videoId \o <<"_">> \o NumberToString(episodeIndex)
    \o <<".","m","p","4">>

\* generateFileName: `${source}_${videoId}_${episodeIndex}.ts`
generateFileName(source, videoId, episodeIndex) ==
  source \o <<"_">> \o videoId \o <<"_">> \o NumberToString(episodeIndex) \o DOT_TS

\* path.join(this.downloadDir, fileName)
PathJoin(dir, name) == dir \o name

\* the output paths the inputs of the model can name
Paths ==
  { PathJoin(DownloadDir, generateFileName(d.source, d.videoId, d.episodeIndex)) :
      d \in TaskInputs }

\* the task object addTask builds (lines 104-120)
NewTask(taskId, taskData, now) ==
  [ id            |-> taskId,
    url           |-> taskData.url,
    source        |-> taskData.source,
    videoId       |-> taskData.videoId,
    videoTitle    |-> taskData.videoTitle,
    episodeIndex  |-> taskData.episodeIndex,
    status        |-> "pending",
    progress      |-> 0,
    totalSize     |-> 0,
    downloadedSize |-> 0,
    error         |-> NoValue,
    createdAt     |-> now,
    filePath      |-> Null,
    fileName      |-> generateFileName(taskData.source, taskData.videoId,
                                       taskData.episodeIndex) ]

\* a slot of the object table that holds no task object
NoTask == [id |-> 0]

\* error messages of the manager
MSG_HTTP == "HTTP"
MSG_CONN == "connection"
MSG_CANCELLED == "cancelled"
MSG_NO_MEDIA == "no media playlist"
MSG_NO_SEGMENTS == "no segments"
MSG_IO == "io"
MSG_ABORT == "aborted"
MSG_DECRYPT == "decrypt"

Range(f) == {f[k] : k \in DOMAIN f}

(***************************************************************************)
(* State.                                                                  *)
(***************************************************************************)
VARIABLES
  tasks,            \* this.tasks: the objects of the map, in insertion order
  obj,              \* the task objects, by handle (an object outlives its map entry)
  nextObj,          \* next free object handle
  activeDownloads,  \* this.activeDownloads: id -> execution owning the controller, 0 if none
  execs,            \* the startDownload executions of this process
  nextExec,         \* next free execution slot
  ops,              \* bag of API calls suspended at an await
  metadataFile,     \* content of metadata.json: the persisted array of tasks
  disk,             \* download directory: path -> "none" | "partial" | "full"
  initPc,           \* "loading" while init() awaits, then "ready"
  nextId,           \* ids handed out so far + 1
  calls,            \* API calls made
  restarts,         \* process restarts so far
  ret               \* what the last API call or step reported

vars == <<tasks, obj, nextObj, activeDownloads, execs, nextExec, ops, metadataFile, disk,
          initPc, nextId, calls, restarts, ret>>

\* ret after a step that is no API call
NoRet == [op |-> "none"]

\* an execution slot not (or no longer) in use; cancelled records, for the
\* properties, that deleteTask ran on the task while this execution was in flight;
\* attempt and lastError are the locals of the downloadSegmentToBuffer call in
\* progress and wait the delay in ms of its pending setTimeout (0: none pending)
IdleExec ==
  [ task |-> 0, pc |-> "idle", n |-> 0, i |-> 0, keys |-> 0, aborted |-> FALSE,
    snap |-> <<>>, len |-> 0, got |-> 0, ref |-> <<>>, cancelled |-> FALSE,
    tsUrls |-> <<>>, keyUrls |-> <<>>, aesKey |-> NullBuffer, aesIV |-> NullBuffer,
    aesMethod |-> Null, segmentBuffers |-> <<>>, attempt |-> 0, wait |-> 0,
    lastError |-> NoValue, mergedBuffer |-> <<>> ]

\* JSON.stringify(Array.from(this.tasks.values())) taken when saveMetadata is called
Snapshot(ts, o) == [k \in 1..Len(ts) |-> o[ts[k]]]

\* the writeFile of saveMetadata settles (lines 70-73): the file holds the
\* snapshot, or the write failed, which is logged and leaves the file as it was
SaveMetadata(ok, snap) == metadataFile' = IF ok THEN snap ELSE metadataFile

Init ==
  /\ tasks = <<>>
  /\ obj = [h \in Objs |-> NoTask]
  /\ nextObj = 1
  /\ activeDownloads = [id \in Ids |-> 0]
  /\ execs = [e \in ExecIds |-> IdleExec]
  /\ nextExec = 1
  /\ ops = EmptyBag
  /\ metadataFile = <<>>
  /\ disk = [p \in Paths |-> "none"]
  /\ initPc = "loading"
  /\ nextId = 1
  /\ calls = 0
  /\ restarts = 0
  /\ ret = NoRet

(***************************************************************************)
(* The task map.  An entry of tasks is an object handle; the key of the    *)
(* entry is the id field of the object.                                    *)
(***************************************************************************)
\* this.tasks.get(taskId): the handle of the entry with that id, 0 if absent
RECURSIVE MapGet(_, _, _)
MapGet(ts, o, taskId) ==
  IF ts = <<>> THEN 0
  ELSE IF o[Head(ts)].id = taskId THEN Head(ts)
  ELSE MapGet(Tail(ts), o, taskId)

\* this.tasks.set(id, object h): a known key keeps its place in the order
MapSet(ts, o, h) ==
  IF MapGet(ts, o, o[h].id) = 0 THEN Append(ts, h)
  ELSE [k \in 1..Len(ts) |-> IF o[ts[k]].id = o[h].id THEN h ELSE ts[k]]

\* this.tasks.delete(taskId)
MapDelete(ts, o, taskId) == SelectSeq(ts, LAMBDA h : o[h].id # taskId)

\* the statuses for which addTask returns the existing task (line 97)
DedupStatuses == {"completed", "downloading", "pending"}

\* lines 88-93: Array.find, the first task of the map with the same key
RECURSIVE FindExisting(_, _, _)
FindExisting(ts, o, taskData) ==
  IF ts = <<>> THEN 0
  ELSE IF /\ o[Head(ts)].source = taskData.source
          /\ o[Head(ts)].videoId = taskData.videoId
          /\ o[Head(ts)].episodeIndex = taskData.episodeIndex
       THEN Head(ts)
       ELSE FindExisting(Tail(ts), o, taskData)

\* the memory a synchronous piece of code works on
Mem == [tasks |-> tasks, obj |-> obj, nextObj |-> nextObj, execs |-> execs,
        nextExec |-> nextExec]

\* startDownload up to its first await (lines 131-137)
StartDownload(m, taskId) ==
  LET h == MapGet(m.tasks, m.obj, taskId) IN
  IF h = 0 THEN m
  ELSE LET o1 == [m.obj EXCEPT ![h].status = "downloading"] IN
       [m EXCEPT !.obj = o1,
                 !.execs[m.nextExec] =
                    [IdleExec EXCEPT !.task = h, !.pc = "save0",
                                     !.snap = Snapshot(m.tasks, o1)],
                 !.nextExec = m.nextExec + 1]

\* whether startDownload(taskId) would start an execution
Starts(m, taskId) == MapGet(m.tasks, m.obj, taskId) # 0

PendingOp(kind, taskId, path, snap) ==
  [kind |-> kind, task |-> taskId, path |-> path, snap |-> snap]

(***************************************************************************)
(* API calls, up to their first await.                                     *)
(***************************************************************************)
\* addTask (lines 80-123)
AddTask(taskData) ==
  /\ LET existing == FindExisting(tasks, obj, taskData) IN
     IF existing # 0 /\ obj[existing].status \in DedupStatuses
     THEN /\ ret' = [op |-> "addTask", id |-> obj[existing].id, created |-> FALSE,
                     data |-> taskData]
          /\ UNCHANGED <<tasks, obj, nextObj, ops, nextId>>
     ELSE /\ nextId <= MaxTasks
          /\ LET task == NewTask(nextId, taskData, nextId)
                 o1   == [obj EXCEPT ![nextObj] = task]
                 ts1  == MapSet(tasks, o1, nextObj)
             IN  /\ obj' = o1
                 /\ tasks' = ts1
                 /\ ops' = ops (+) SetToBag({PendingOp("start", nextId, <<>>,
                                                       Snapshot(ts1, o1))})
          /\ nextObj' = nextObj + 1
          /\ nextId' = nextId + 1
          /\ ret' = [op |-> "addTask", id |-> nextId, created |-> TRUE,
                     data |-> taskData]
  /\ calls' = calls + 1
  /\ UNCHANGED <<activeDownloads, execs, nextExec, metadataFile, disk, initPc, restarts>>

\* a retryTask without the check of line 483
RetryNeverRefused(status) == FALSE

\* retryTask refuses a task in this status (line 483)
RetryRefused(status) == status = "downloading"

\* a reset that leaves the counters and the message of the failed run
RetryResetStatusOnly(task) == [task EXCEPT !.status = "pending"]

\* the reset of retryTask (lines 488-491)
RetryReset(task) ==
  [task EXCEPT !.status = "pending", !.progress = 0, !.downloadedSize = 0,
               !.error = NoValue]

\* retryTask (lines 477-492)
RetryTask(taskId) ==
  /\ calls' = calls + 1
  /\ LET h == MapGet(tasks, obj, taskId) IN
     IF h = 0
     THEN /\ ret' = [op |-> "retryTask", id |-> taskId, error |-> "not found"]
          /\ UNCHANGED <<obj, ops>>
     ELSE IF RetryRefused(obj[h].status)
     THEN /\ ret' = [op |-> "retryTask", id |-> taskId, error |-> "downloading"]
          /\ UNCHANGED <<obj, ops>>
     ELSE LET o1 == [obj EXCEPT ![h] = RetryReset(obj[h])] IN
          /\ obj' = o1
          /\ ops' = ops (+) SetToBag({PendingOp("start", taskId, <<>>,
                                                Snapshot(tasks, o1))})
          /\ ret' = [op |-> "retryTask", id |-> taskId, error |-> NoValue]
  /\ UNCHANGED <<tasks, nextObj, activeDownloads, execs, nextExec, metadataFile, disk,
                 initPc, nextId, restarts>>

\* the positions of an execution between status = 'downloading' and its end
InFlight == {"save0", "manifest", "media", "key", "seg", "segsave", "write",
             "request", "stream", "stalled"}

\* a deleteTask that drops the token without aborting its controller
AbortNothing(ex, ad, taskId) == ex

\* controller.abort() of deleteTask (lines 511-514): the controller registered
\* for the id belongs to execution ad[taskId]
AbortDownload(ex, ad, taskId) ==
  IF ad[taskId] = 0 THEN ex ELSE [ex EXCEPT ![ad[taskId]].aborted = TRUE]

\* history: the executions in flight on object h see a deleteTask
MarkCancelled(ex, h) ==
  [e \in ExecIds |-> IF ex[e].task = h /\ ex[e].pc \in InFlight
                     THEN [ex[e] EXCEPT !.cancelled = TRUE] ELSE ex[e]]

\* deleteTask (lines 506-540) up to its first await
DeleteTask(taskId) ==
  /\ calls' = calls + 1
  /\ ret' = [op |-> "deleteTask", id |-> taskId]
  /\ LET h == MapGet(tasks, obj, taskId) IN
     IF h = 0
     THEN UNCHANGED <<tasks, activeDownloads, execs, ops>>
     ELSE /\ execs' = MarkCancelled(AbortDownload(execs, activeDownloads, taskId), h)
          /\ activeDownloads' = [activeDownloads EXCEPT ![taskId] = 0]
          /\ IF obj[h].filePath # Null
             THEN /\ ops' = ops (+) SetToBag({PendingOp("unlink", taskId,
                                                        obj[h].filePath, <<>>)})
                  /\ tasks' = tasks
             ELSE /\ tasks' = MapDelete(tasks, obj, taskId)
                  /\ ops' = ops (+) SetToBag({PendingOp("save", taskId, <<>>,
                                 Snapshot(MapDelete(tasks, obj, taskId), obj))})
  /\ UNCHANGED <<obj, nextObj, nextExec, metadataFile, disk, initPc, nextId, restarts>>

\* a probe that takes only finished files for existing
ExistsComplete(path) == path \in Paths /\ disk[path] = "full"

\* fs.existsSync(filePath) (line 547): the download directory holds the files
\* of disk and nothing else
ExistsSync(path) == path \in Paths /\ disk[path] # "none"

\* getOfflineVideo (lines 543-552)
GetOfflineVideo(key) ==
  /\ LET fileName == generateFileName(key.source, key.videoId, key.episodeIndex)
         filePath == PathJoin(DownloadDir, fileName)
     IN  ret' = [op |-> "getOfflineVideo", key |-> key,
                 path |-> IF ExistsSync(filePath) THEN filePath ELSE Null]
  /\ UNCHANGED <<tasks, obj, nextObj, activeDownloads, execs, nextExec, ops,
                 metadataFile, disk, initPc, nextId, calls, restarts>>

(***************************************************************************)
(* Continuations of the API calls.                                         *)
(***************************************************************************)
\* addTask / retryTask after `await this.saveMetadata()`: startDownload(taskId)
OpStart(op, ok) ==
  /\ op \in BagToSet(ops)
  /\ op.kind = "start"
  /\ Starts(Mem, op.task) => nextExec <= MaxExecs
  /\ SaveMetadata(ok, op.snap)
  /\ LET m == StartDownload(Mem, op.task) IN
     /\ obj' = m.obj
     /\ execs' = m.execs
     /\ nextExec' = m.nextExec
  /\ ops' = ops (-) SetToBag({op})
  /\ ret' = NoRet
  /\ UNCHANGED <<tasks, nextObj, activeDownloads, disk, initPc, nextId, calls, restarts>>

\* deleteTask after `await unlink(task.filePath)` (lines 518-540); ok is the
\* outcome of unlink on an existing file
OpUnlink(op, ok) ==
  /\ op \in BagToSet(ops)
  /\ op.kind = "unlink"
  /\ disk' = IF EndsWith(op.path, DOT_M3U8)
             THEN IF ok THEN [p \in Paths |-> "none"] ELSE disk
             ELSE IF ok /\ op.path \in Paths THEN [disk EXCEPT ![op.path] = "none"]
             ELSE disk
  /\ tasks' = MapDelete(tasks, obj, op.task)
  /\ ops' = (ops (-) SetToBag({op}))
              (+) SetToBag({PendingOp("save", op.task, <<>>,
                                      Snapshot(MapDelete(tasks, obj, op.task), obj))})
  /\ ret' = NoRet
  /\ UNCHANGED <<obj, nextObj, activeDownloads, execs, nextExec, metadataFile, initPc,
                 nextId, calls, restarts>>

\* deleteTask after its `await this.saveMetadata()`
OpSave(op, ok) ==
  /\ op \in BagToSet(ops)
  /\ op.kind = "save"
  /\ SaveMetadata(ok, op.snap)
  /\ ops' = ops (-) SetToBag({op})
  /\ ret' = NoRet
  /\ UNCHANGED <<tasks, obj, nextObj, activeDownloads, execs, nextExec, disk, initPc,
                 nextId, calls, restarts>>

(***************************************************************************)
(* The executions of startDownload.  execs[e].task is the object the       *)
(* execution holds; it keeps running when the task has left the map.       *)
(***************************************************************************)
\* the catch of startDownload (lines 150-153)
OnThrow(task, msg) == [task EXCEPT !.status = "error", !.error = msg]

\* the success path of startDownload (lines 147-148)
OnSuccess(task) == [task EXCEPT !.status = "completed", !.progress = 100]

\* the execution suspends at the last saveMetadata of startDownload
ToSaveEnd(e, o1) ==
  /\ obj' = o1
  /\ execs' = [execs EXCEPT ![e] = [@ EXCEPT !.pc = "saveEnd",
                                             !.snap = Snapshot(tasks, o1)]]

\* an exception inside the try of downloadM3u8: its catch removes the token
\* (line 379), then startDownload's catch records the error
ThrowM3u8(e, o1, msg) ==
  LET h == execs[e].task IN
  /\ activeDownloads' = [activeDownloads EXCEPT ![obj[h].id] = 0]
  /\ ToSaveEnd(e, [o1 EXCEPT ![h] = OnThrow(o1[h], msg)])

\* a rejection of the promise of downloadFile; removeToken tells whether the
\* handler that rejects also calls activeDownloads.delete
RejectFile(e, msg, removeToken) ==
  LET h == execs[e].task IN
  /\ activeDownloads' = IF removeToken
                        THEN [activeDownloads EXCEPT ![obj[h].id] = 0]
                        ELSE activeDownloads
  /\ ToSaveEnd(e, [obj EXCEPT ![h] = OnThrow(obj[h], msg)])

\* Math.round(((i + 1) / tsUrls.length) * 100) (line 361)
SegmentProgress(i, n) == MathRound(100 * (i + 1), n)

\* a progress that relates the bytes received to the size of the first chunk
\* instead of the advertised length
FileProgressPerByte(downloadedSize, totalSize) ==
  IF totalSize > 0 THEN MathRound(100 * downloadedSize, 1) ELSE 0

\* totalSize > 0 ? Math.round((downloadedSize / totalSize) * 100) : 0 (line 181)
FileProgress(downloadedSize, totalSize) ==
  IF totalSize > 0 THEN MathRound(100 * downloadedSize, totalSize) ELSE 0

\* the output path of the HLS branch (lines 370-371)
VideoFilePath(task) ==
  PathJoin(DownloadDir, task.source \o <<"_">> \o task.videoId \o <<"_">>
                          \o NumberToString(task.episodeIndex) \o DOT_TS)

\* the head of the segment loop for index i of n (lines 343-351), or the
\* merge and writeFile after the last segment (lines 367-372)
LoopHead(e, o1, i, n, tsUrls, aesKey) ==
  LET h == execs[e].task IN
  IF i < n
  THEN IF execs[e].aborted
       THEN /\ ThrowM3u8(e, o1, MSG_CANCELLED)
            /\ disk' = disk
       ELSE /\ obj' = o1
            /\ execs' = [execs EXCEPT ![e] = [@ EXCEPT !.pc = "seg", !.i = i, !.n = n,
                                                !.keys = 0, !.ref = <<>>,
                                                !.snap = <<>>, !.tsUrls = tsUrls,
                                                !.aesKey = aesKey, !.attempt = 0, !.lastError = NoValue]]
            /\ UNCHANGED <<activeDownloads, disk>>
  ELSE /\ obj' = o1
       /\ execs' = [execs EXCEPT ![e] = [@ EXCEPT !.pc = "write", !.i = i, !.n = n,
                                           !.keys = 0, !.ref = <<>>, !.snap = <<>>,
                                           !.tsUrls = tsUrls, !.aesKey = aesKey,
                                           !.attempt = 0,
                                           !.lastError = NoValue,
                                           !.mergedBuffer =
                                              BufferConcat(execs[e].segmentBuffers)]]
       /\ disk' = [disk EXCEPT ![VideoFilePath(o1[h])] = "partial"]
       /\ UNCHANGED activeDownloads

\* after the key scan: the segment list and the start of the loop (lines 312-343)
AfterKeys(e, o1, tsUrls, aesKey) ==
  LET h == execs[e].task
      n == Len(tsUrls)
  IN
  IF n = 0
  THEN /\ ThrowM3u8(e, o1, MSG_NO_SEGMENTS)
       /\ disk' = disk
  ELSE LoopHead(e, [o1 EXCEPT ![h].totalSize = n], 0, n, tsUrls,
                aesKey)

\* the media playlist text is known: scan it for keys (lines 266-310)
Parse(e, o1, text) ==
  LET h == execs[e].task
      tsUrls == SegmentUrls(SplitLines(text), o1[h].url)
      keyUrls == KeyUrls(text, o1[h].url)
  IN  IF Len(keyUrls) > 0
      THEN /\ obj' = o1
           /\ execs' = [execs EXCEPT ![e] = [@ EXCEPT !.pc = "key", !.n = Len(tsUrls),
                                                !.keys = Len(keyUrls),
                                                !.ref = <<>>, !.tsUrls = tsUrls,
                                                !.keyUrls = keyUrls,
                                                !.aesMethod = AesMethod(text),
                                                !.aesIV = AesIv(text)]]
           /\ UNCHANGED <<activeDownloads, disk>>
      ELSE AfterKeys(e, o1, tsUrls, NullBuffer)

ExecFrame == UNCHANGED <<tasks, nextObj, nextExec, ops, initPc, nextId, calls, restarts>>

\* startDownload after its first saveMetadata: downloadM3u8 or downloadFile
\* registers a controller and sends the first request (lines 139-166, 207-214)
ExecSave0(e, ok) ==
  /\ execs[e].pc = "save0"
  /\ SaveMetadata(ok, execs[e].snap)
  /\ LET h == execs[e].task IN
     /\ activeDownloads' = [activeDownloads EXCEPT ![obj[h].id] = e]
     /\ execs' = [execs EXCEPT ![e] =
                    [@ EXCEPT !.pc = IF IsM3u8Url(obj[h].url) THEN "manifest"
                                     ELSE "request",
                              !.snap = <<>>]]
  /\ ret' = NoRet
  /\ UNCHANGED <<obj, disk>>
  /\ ExecFrame

\* fetchContent(task.url) settles (lines 214-262)
ExecManifest(e, ok, text) ==
  /\ execs[e].pc = "manifest"
  /\ LET h == execs[e].task IN
     IF ~ok
     THEN /\ ThrowM3u8(e, obj, MSG_HTTP)
          /\ disk' = disk
     ELSE IF IsMasterPlaylist(text)
     THEN IF FindMediaLine(SplitLines(text), FALSE) = Null
          THEN /\ ThrowM3u8(e, obj, MSG_NO_MEDIA)
               /\ disk' = disk
          ELSE /\ execs' = [execs EXCEPT ![e] =
                   [@ EXCEPT !.pc = "media",
                             !.ref = ResolveMediaUrl(FindMediaLine(SplitLines(text), FALSE),
                                                     obj[h].url)]]
               /\ UNCHANGED <<obj, activeDownloads, disk>>
     ELSE Parse(e, obj, text)
  /\ ret' = NoRet
  /\ metadataFile' = metadataFile
  /\ ExecFrame

\* fetchContent(mediaPlaylistUrl) settles (lines 257-261)
ExecMedia(e, ok, text) ==
  /\ execs[e].pc = "media"
  /\ LET h == execs[e].task IN
     IF ~ok
     THEN /\ ThrowM3u8(e, obj, MSG_HTTP)
          /\ disk' = disk
     ELSE Parse(e, [obj EXCEPT ![h].url = execs[e].ref], text)
  /\ ret' = NoRet
  /\ metadataFile' = metadataFile
  /\ ExecFrame

\* downloadSegmentToBuffer(keyUrl) settles (line 302): it returns the bytes of
\* the key, or throws the error err of its last attempt
ExecKey(e, ok, key, err) ==
  /\ execs[e].pc = "key"
  /\ execs[e].wait = 0
  /\ IF ~ok
     THEN /\ ThrowM3u8(e, obj, err)
          /\ disk' = disk
     ELSE IF execs[e].keys > 1
     THEN /\ execs' = [execs EXCEPT ![e] = [@ EXCEPT !.keys = @ - 1,
                                                      !.aesKey = Buffer(key),
                                                      !.attempt = 0, !.lastError = NoValue]]
          /\ UNCHANGED <<obj, activeDownloads, disk>>
     ELSE AfterKeys(e, obj, execs[e].tsUrls, Buffer(key))
  /\ ret' = NoRet
  /\ metadataFile' = metadataFile
  /\ ExecFrame

\* the default of the parameter retries of downloadSegmentToBuffer (line 437)
Retries == 3

\* a backoff timer with the same delay after every failed attempt
BackoffConstant(attempt) == 1000

\* the delay of the backoff timer after a failed attempt (line 470)
Backoff(attempt) == 1000 * 2 ^ attempt

\* an attempt of downloadSegmentToBuffer other than the last fails with err, a
\* status other than 200 or a connection error: the catch keeps the error and
\* starts the backoff timer (lines 466-472)
FetchAttemptFails(e, err) ==
  /\ execs[e].pc \in {"key", "seg"}
  /\ execs[e].wait = 0
  /\ execs[e].attempt < Retries - 1
  /\ execs' = [execs EXCEPT ![e] = [@ EXCEPT !.lastError = err,
                                             !.wait = Backoff(execs[e].attempt)]]
  /\ ret' = NoRet
  /\ UNCHANGED <<obj, activeDownloads, metadataFile, disk>>
  /\ ExecFrame

\* the backoff timer fires: the loop goes on with the next attempt and sends
\* its request (lines 439-443)
FetchBackoffEnds(e) ==
  /\ execs[e].wait > 0
  /\ execs' = [execs EXCEPT ![e] = [@ EXCEPT !.wait = 0, !.attempt = @ + 1]]
  /\ ret' = NoRet
  /\ UNCHANGED <<obj, activeDownloads, metadataFile, disk>>
  /\ ExecFrame

\* the segment buffer after lines 353-356: decrypted if a key was downloaded
\* and the method is AES-128
SegmentBuffer(x, data) ==
  IF ~x.aesKey.null /\ x.aesMethod = AES_128
  THEN decryptAES128(data, x.aesKey.bytes, x.aesIV, UInt32(x.i))
  ELSE Returned(Raw(data))

\* downloadSegmentToBuffer(tsUrl) settles (lines 351-362): it returns the bytes
\* of the segment, or throws the error err of its last attempt
ExecSeg(e, ok, data, err) ==
  /\ execs[e].pc = "seg"
  /\ execs[e].wait = 0
  /\ LET h == execs[e].task
         i == execs[e].i
     IN  IF ~ok
         THEN ThrowM3u8(e, obj, err)
         ELSE IF SegmentBuffer(execs[e], data).threw
         THEN ThrowM3u8(e, obj, MSG_DECRYPT)
         ELSE LET o1 == [obj EXCEPT ![h].downloadedSize = i + 1,
                                    ![h].progress = SegmentProgress(i, execs[e].n)]
              IN  /\ obj' = o1
                  /\ execs' = [execs EXCEPT ![e] =
                                 [@ EXCEPT !.pc = "segsave", !.attempt = 0, !.lastError = NoValue,
                                           !.snap = Snapshot(tasks, o1),
                                           !.segmentBuffers =
                                              Append(@, SegmentBuffer(execs[e], data).value)]]
                  /\ activeDownloads' = activeDownloads
  /\ ret' = NoRet
  /\ UNCHANGED <<metadataFile, disk>>
  /\ ExecFrame

\* the saveMetadata of the segment loop settles; next iteration (line 362)
ExecSegSave(e, ok) ==
  /\ execs[e].pc = "segsave"
  /\ SaveMetadata(ok, execs[e].snap)
  /\ LoopHead(e, obj, execs[e].i + 1, execs[e].n, execs[e].tsUrls, execs[e].aesKey)
  /\ ret' = NoRet
  /\ ExecFrame

\* writeFile(videoFilePath, mergedBuffer) settles (lines 372-377, 147-149)
ExecWrite(e, ok) ==
  /\ execs[e].pc = "write"
  /\ LET h == execs[e].task IN
     IF ok
     THEN /\ disk' = [disk EXCEPT ![VideoFilePath(obj[h])] = "full"]
          /\ activeDownloads' = [activeDownloads EXCEPT ![obj[h].id] = 0]
          /\ ToSaveEnd(e, [obj EXCEPT ![h] =
                             OnSuccess([obj[h] EXCEPT
                                          !.filePath = VideoFilePath(obj[h])])])
     ELSE /\ ThrowM3u8(e, obj, MSG_IO)
          /\ disk' = disk
  /\ ret' = NoRet
  /\ metadataFile' = metadataFile
  /\ ExecFrame

\* the last saveMetadata of startDownload settles: the execution is over
ExecSaveEnd(e, ok) ==
  /\ execs[e].pc = "saveEnd"
  /\ SaveMetadata(ok, execs[e].snap)
  /\ execs' = [execs EXCEPT ![e] = [IdleExec EXCEPT !.pc = "done"]]
  /\ ret' = NoRet
  /\ UNCHANGED <<obj, activeDownloads, disk>>
  /\ ExecFrame

\* the output path of the direct-file branch (line 159)
FilePath(task) == PathJoin(DownloadDir, task.fileName)

\* the request of downloadFile fails before a response: a connection error, or
\* the abort of its signal (lines 200-203)
ExecRequestError(e) ==
  /\ execs[e].pc = "request"
  /\ RejectFile(e, IF execs[e].aborted THEN MSG_ABORT ELSE MSG_HTTP, TRUE)
  /\ ret' = NoRet
  /\ UNCHANGED <<metadataFile, disk>>
  /\ ExecFrame

\* the response callback of downloadFile (lines 166-184); len is the advertised
\* content length, 0 when there is none
ExecResponse(e, is200, len) ==
  /\ execs[e].pc = "request"
  /\ ~execs[e].aborted
  /\ LET h == execs[e].task IN
     IF ~is200
     THEN /\ RejectFile(e, MSG_HTTP, FALSE)
          /\ disk' = disk
     ELSE /\ obj' = [obj EXCEPT ![h].totalSize = len]
          /\ execs' = [execs EXCEPT ![e] = [@ EXCEPT !.pc = "stream", !.len = len,
                                                     !.got = 0]]
          /\ disk' = [disk EXCEPT ![FilePath(obj[h])] = "partial"]
          /\ activeDownloads' = activeDownloads
  /\ ret' = NoRet
  /\ metadataFile' = metadataFile
  /\ ExecFrame

\* the bytes a response may still deliver: HTTP framing ends the body at the
\* advertised length; without one the model stops at MaxLen
Remaining(len, got) == IF len > 0 THEN len - got ELSE MaxLen - got

\* a 'data' event of the response (lines 178-182)
ExecChunk(e, size) ==
  /\ execs[e].pc = "stream"
  /\ ~execs[e].aborted
  /\ size <= Remaining(execs[e].len, execs[e].got)
  /\ LET h == execs[e].task
         downloadedSize == execs[e].got + size
     IN  /\ obj' = [obj EXCEPT ![h].downloadedSize = downloadedSize,
                               ![h].progress = FileProgress(downloadedSize, execs[e].len)]
         /\ execs' = [execs EXCEPT ![e].got = downloadedSize]
  /\ ret' = NoRet
  /\ UNCHANGED <<activeDownloads, metadataFile, disk>>
  /\ ExecFrame

\* the 'finish' event of the file stream (lines 186-191, 147-149)
ExecFinish(e) ==
  /\ execs[e].pc = "stream"
  /\ execs[e].len > 0 => execs[e].got = execs[e].len
  /\ LET h == execs[e].task IN
     /\ disk' = [disk EXCEPT ![FilePath(obj[h])] = "full"]
     /\ activeDownloads' = [activeDownloads EXCEPT ![obj[h].id] = 0]
     /\ ToSaveEnd(e, [obj EXCEPT ![h] =
                        OnSuccess([obj[h] EXCEPT !.filePath = FilePath(obj[h])])])
  /\ ret' = NoRet
  /\ metadataFile' = metadataFile
  /\ ExecFrame

\* an 'error' event while the body streams: of the request (connection lost, or
\* its signal aborted) or of the file stream (lines 193-203)
ExecStreamError(e) ==
  /\ execs[e].pc = "stream"
  /\ RejectFile(e, IF execs[e].aborted THEN MSG_ABORT ELSE MSG_IO, TRUE)
  /\ ret' = NoRet
  /\ UNCHANGED <<metadataFile, disk>>
  /\ ExecFrame

\* the connection closes before the advertised length has arrived: the
\* response is destroyed without 'end', which neither request.on('error')
\* (line 200) nor a listener of the file stream (lines 186, 193) observes, and
\* downloadFile listens to nothing else (lines 166-203): its promise stays
\* pending
ExecResponseAborted(e) ==
  /\ execs[e].pc = "stream"
  /\ execs[e].got < execs[e].len
  /\ execs' = [execs EXCEPT ![e].pc = "stalled"]
  /\ ret' = NoRet
  /\ UNCHANGED <<obj, activeDownloads, metadataFile, disk>>
  /\ ExecFrame

(***************************************************************************)
(* Process start.                                                          *)
(***************************************************************************)
\* the statuses init() resubmits (line 56)
Resumed(status) == status \in {"downloading", "pending"}

\* tasks.forEach of init (lines 53-60)
RECURSIVE LoadTasks(_, _)
LoadTasks(m, arr) ==
  IF arr = <<>> THEN m
  ELSE LET task == Head(arr)
           h    == m.nextObj
           o1   == [m.obj EXCEPT ![h] = task]
           m1   == [m EXCEPT !.obj = o1, !.tasks = MapSet(m.tasks, o1, h),
                             !.nextObj = h + 1]
           m2   == IF Resumed(task.status)
                   THEN StartDownload([m1 EXCEPT !.obj[h].status = "pending"], task.id)
                   ELSE m1
       IN  LoadTasks(m2, Tail(arr))

\* init() after readFile (lines 50-61)
InitLoad ==
  /\ initPc = "loading"
  /\ LET m == LoadTasks(Mem, metadataFile) IN
     /\ m.nextExec <= MaxExecs + 1
     /\ tasks' = m.tasks
     /\ obj' = m.obj
     /\ nextObj' = m.nextObj
     /\ execs' = m.execs
     /\ nextExec' = m.nextExec
  /\ initPc' = "ready"
  /\ ret' = [op |-> "init", file |-> metadataFile]
  /\ UNCHANGED <<activeDownloads, ops, metadataFile, disk, nextId, calls, restarts>>

\* the process stops (crash or shutdown) and a new one is constructed
\* (lines 38-42): memory is lost, the download directory is kept
Restart ==
  /\ restarts' = restarts + 1
  /\ calls' = calls + 1
  /\ tasks' = <<>>
  /\ obj' = [h \in Objs |-> NoTask]
  /\ nextObj' = 1
  /\ activeDownloads' = [id \in Ids |-> 0]
  /\ execs' = [e \in ExecIds |-> IdleExec]
  /\ nextExec' = 1
  /\ ops' = EmptyBag
  /\ initPc' = "loading"
  /\ ret' = NoRet
  /\ UNCHANGED <<metadataFile, disk, nextId>>

\* the environment: at most maxCalls calls that change the store and restarts
\* in all, and callers that wait for init() to finish
MayCall(maxCalls) == calls < maxCalls /\ initPc = "ready"

MayRestart(maxCalls) == MayCall(maxCalls) /\ restarts < MaxRestarts

Next ==
  \/ \E d \in TaskInputs : MayCall(MaxCalls) /\ AddTask(d)
  \/ \E id \in Ids : MayCall(MaxCalls) /\ RetryTask(id)
  \/ \E id \in Ids : MayCall(MaxCalls) /\ DeleteTask(id)
  \/ MayRestart(MaxCalls) /\ Restart
  \/ InitLoad
  \/ \E op \in BagToSet(ops), ok \in BOOLEAN : OpStart(op, ok)
  \/ \E op \in BagToSet(ops), ok \in BOOLEAN : OpUnlink(op, ok)
  \/ \E op \in BagToSet(ops), ok \in BOOLEAN : OpSave(op, ok)
  \/ \E e \in ExecIds, ok \in BOOLEAN : ExecSave0(e, ok)
  \/ \E e \in ExecIds, ok \in BOOLEAN, text \in Playlists : ExecManifest(e, ok, text)
  \/ \E e \in ExecIds, ok \in BOOLEAN, text \in Playlists : ExecMedia(e, ok, text)
  \/ \E e \in ExecIds, ok \in BOOLEAN, key \in KeyBodies : ExecKey(e, ok, key, MSG_HTTP)
  \/ \E e \in ExecIds, ok \in BOOLEAN, data \in SegBodies : ExecSeg(e, ok, data, MSG_HTTP)
  \/ \E e \in ExecIds, ok \in BOOLEAN : ExecSegSave(e, ok)
  \/ \E e \in ExecIds, ok \in BOOLEAN : ExecWrite(e, ok)
  \/ \E e \in ExecIds, ok \in BOOLEAN : ExecSaveEnd(e, ok)
  \/ \E e \in ExecIds : ExecRequestError(e)
  \/ \E e \in ExecIds, is200 \in BOOLEAN, len \in 0..MaxLen : ExecResponse(e, is200, len)
  \/ \E e \in ExecIds, size \in 1..MaxLen : ExecChunk(e, size)
  \/ \E e \in ExecIds : ExecFinish(e)
  \/ \E e \in ExecIds : ExecStreamError(e)
  \/ \E e \in ExecIds : ExecResponseAborted(e)

Spec == Init /\ [][Next]_vars

\* the title and the playlists of the longer runs: one HLS title, served by
\* plain media playlists
LongInputs == {d \in TaskInputs : d.url = HlsUrl}

LongPlaylists == {MediaText(0), MediaText(1)}

\* one call more than in Spec
NextLong ==
  \/ \E d \in LongInputs : MayCall(MaxCalls + 1) /\ AddTask(d)
  \/ \E id \in Ids : MayCall(MaxCalls + 1) /\ RetryTask(id)
  \/ \E id \in Ids : MayCall(MaxCalls + 1) /\ DeleteTask(id)
  \/ MayRestart(MaxCalls + 1) /\ Restart
  \/ InitLoad
  \/ \E op \in BagToSet(ops), ok \in BOOLEAN : OpStart(op, ok)
  \/ \E op \in BagToSet(ops), ok \in BOOLEAN : OpUnlink(op, ok)
  \/ \E op \in BagToSet(ops), ok \in BOOLEAN : OpSave(op, ok)
  \/ \E e \in ExecIds, ok \in BOOLEAN : ExecSave0(e, ok)
  \/ \E e \in ExecIds, ok \in BOOLEAN, text \in LongPlaylists : ExecManifest(e, ok, text)
  \/ \E e \in ExecIds, ok \in BOOLEAN, data \in SegBodies : ExecSeg(e, ok, data, MSG_HTTP)
  \/ \E e \in ExecIds, ok \in BOOLEAN : ExecSegSave(e, ok)
  \/ \E e \in ExecIds, ok \in BOOLEAN : ExecWrite(e, ok)
  \/ \E e \in ExecIds, ok \in BOOLEAN : ExecSaveEnd(e, ok)

SpecLong == Init /\ [][NextLong]_vars

\* the longer runs with a caller that also asks getOfflineVideo, a read that the
\* call budget does not count
NextProbe ==
  \/ \E d \in LongInputs : MayCall(MaxCalls + 1) /\ AddTask(d)
  \/ \E id \in Ids : MayCall(MaxCalls + 1) /\ RetryTask(id)
  \/ \E id \in Ids : MayCall(MaxCalls + 1) /\ DeleteTask(id)
  \/ MayRestart(MaxCalls + 1) /\ Restart
  \/ \E key \in ProbeKeys : initPc = "ready" /\ GetOfflineVideo(key)
  \/ InitLoad
  \/ \E op \in BagToSet(ops), ok \in BOOLEAN : OpStart(op, ok)
  \/ \E op \in BagToSet(ops), ok \in BOOLEAN : OpUnlink(op, ok)
  \/ \E op \in BagToSet(ops), ok \in BOOLEAN : OpSave(op, ok)
  \/ \E e \in ExecIds, ok \in BOOLEAN : ExecSave0(e, ok)
  \/ \E e \in ExecIds, ok \in BOOLEAN, text \in LongPlaylists : ExecManifest(e, ok, text)
  \/ \E e \in ExecIds, ok \in BOOLEAN, data \in SegBodies : ExecSeg(e, ok, data, MSG_HTTP)
  \/ \E e \in ExecIds, ok \in BOOLEAN : ExecSegSave(e, ok)
  \/ \E e \in ExecIds, ok \in BOOLEAN : ExecWrite(e, ok)
  \/ \E e \in ExecIds, ok \in BOOLEAN : ExecSaveEnd(e, ok)

SpecProbe == Init /\ [][NextProbe]_vars

(***************************************************************************)
(* The parsing of playlists on its own: one HLS task whose execution has   *)
(* registered its controller and awaits the playlist (the state after      *)
(* addTask, startDownload and the first saveMetadata), for every address   *)
(* of ParseUrls, answered with every body of ParseTexts.                   *)
(***************************************************************************)
InitAwaiting(url) ==
  LET task == [ NewTask(1, [url |-> url, source |-> <<"a">>, videoId |-> <<"b">>,
                            videoTitle |-> "t", episodeIndex |-> 0], 1)
                  EXCEPT !.status = "downloading" ]
  IN
    /\ tasks = <<1>>
    /\ obj = [h \in Objs |-> IF h = 1 THEN task ELSE NoTask]
    /\ nextObj = 2
    /\ activeDownloads = [id \in Ids |-> IF id = 1 THEN 1 ELSE 0]
    /\ execs = [e \in ExecIds |-> IF e = 1 THEN [IdleExec EXCEPT !.task = 1,
                                                                  !.pc = "manifest"]
                                   ELSE IdleExec]
    /\ nextExec = 2
    /\ ops = EmptyBag
    /\ metadataFile = <<task>>
    /\ disk = [p \in Paths |-> "none"]
    /\ initPc = "ready"
    /\ nextId = 2
    /\ calls = 1
    /\ restarts = 0
    /\ ret = NoRet

NextParse ==
  \/ \E e \in ExecIds, ok \in BOOLEAN, text \in ParseTexts \cup MasterTexts :
        ExecManifest(e, ok, text)
  \/ \E e \in ExecIds, ok \in BOOLEAN, text \in ParseTexts \cup KeyTexts :
        ExecMedia(e, ok, text)
  \/ \E e \in ExecIds, ok \in BOOLEAN, key \in KeyBodies : ExecKey(e, ok, key, MSG_HTTP)
  \/ \E e \in ExecIds, ok \in BOOLEAN : ExecSaveEnd(e, ok)

SpecParse == (\E url \in ParseUrls : InitAwaiting(url)) /\ [][NextParse]_vars

NextCrypto ==
  \/ \E e \in ExecIds, ok \in BOOLEAN, text \in CryptoTexts : ExecManifest(e, ok, text)
  \/ \E e \in ExecIds, ok \in BOOLEAN, key \in CryptoKeys : ExecKey(e, ok, key, MSG_HTTP)
  \/ \E e \in ExecIds, ok \in BOOLEAN, data \in CryptoSegs : ExecSeg(e, ok, data, MSG_HTTP)
  \/ \E e \in ExecIds, ok \in BOOLEAN : ExecSegSave(e, ok)
  \/ \E e \in ExecIds, ok \in BOOLEAN : ExecWrite(e, ok)
  \/ \E e \in ExecIds, ok \in BOOLEAN : ExecSaveEnd(e, ok)

SpecCrypto == InitAwaiting(HlsUrl) /\ [][NextCrypto]_vars

(***************************************************************************)
(* The HLS execution with downloadSegmentToBuffer followed attempt by       *)
(* attempt: a call settles with a body as soon as an attempt answers 200,  *)
(* and with an error when its last attempt fails.  Elsewhere ExecKey and   *)
(* ExecSeg stand for the call as a whole.                                  *)
(***************************************************************************)
FetchErrors == {MSG_HTTP, MSG_CONN}

NextFetch ==
  \/ \E e \in ExecIds, ok \in BOOLEAN, text \in Playlists : ExecManifest(e, ok, text)
  \/ \E e \in ExecIds, ok \in BOOLEAN, text \in Playlists : ExecMedia(e, ok, text)
  \/ \E e \in ExecIds, err \in FetchErrors : FetchAttemptFails(e, err)
  \/ \E e \in ExecIds : FetchBackoffEnds(e)
  \/ \E e \in ExecIds, ok \in BOOLEAN, key \in KeyBodies, err \in FetchErrors :
        (ok \/ execs[e].attempt = Retries - 1) /\ ExecKey(e, ok, key, err)
  \/ \E e \in ExecIds, ok \in BOOLEAN, data \in SegBodies, err \in FetchErrors :
        (ok \/ execs[e].attempt = Retries - 1) /\ ExecSeg(e, ok, data, err)
  \/ \E e \in ExecIds, ok \in BOOLEAN : ExecSegSave(e, ok)
  \/ \E e \in ExecIds, ok \in BOOLEAN : ExecWrite(e, ok)
  \/ \E e \in ExecIds, ok \in BOOLEAN : ExecSaveEnd(e, ok)

SpecFetch == InitAwaiting(HlsUrl) /\ [][NextFetch]_vars

(***************************************************************************)
(* A process constructed over what an earlier process left behind: the     *)
(* metadata file holds one HLS task, interrupted while downloading,        *)
(* completed, or completed once and failed on a retry (its file is still   *)
(* on disk and its filePath still set).  The callers do not wait for       *)
(* init(): the constructor starts it without awaiting it (line 41) and the *)
(* methods of the manager do not await it either.                          *)
(***************************************************************************)
BootStates ==
  LET task == NewTask(1, CHOOSE d \in LongInputs : TRUE, 1)
      path == PathJoin(DownloadDir, task.fileName)
      none == [p \in Paths |-> "none"]
  IN  { [file |-> <<[task EXCEPT !.status = "downloading"]>>, disk |-> none],
        [file |-> <<[task EXCEPT !.status = "completed", !.progress = 100,
                                 !.totalSize = 1, !.downloadedSize = 1,
                                 !.filePath = path]>>,
         disk |-> [none EXCEPT ![path] = "full"]],
        [file |-> <<[task EXCEPT !.status = "error", !.error = MSG_HTTP,
                                 !.totalSize = 1, !.filePath = path]>>,
         disk |-> [none EXCEPT ![path] = "full"]] }

InitBoot ==
  /\ tasks = <<>>
  /\ obj = [h \in Objs |-> NoTask]
  /\ nextObj = 1
  /\ activeDownloads = [id \in Ids |-> 0]
  /\ execs = [e \in ExecIds |-> IdleExec]
  /\ nextExec = 1
  /\ ops = EmptyBag
  /\ \E b \in BootStates : metadataFile = b.file /\ disk = b.disk
  /\ initPc = "loading"
  /\ nextId = 2
  /\ calls = 0
  /\ restarts = 1
  /\ ret = NoRet

NextBoot ==
  \/ \E d \in LongInputs : calls < MaxCalls /\ AddTask(d)
  \/ \E id \in Ids : calls < MaxCalls /\ RetryTask(id)
  \/ \E id \in Ids : calls < MaxCalls /\ DeleteTask(id)
  \/ InitLoad
  \/ \E op \in BagToSet(ops), ok \in BOOLEAN : OpStart(op, ok)
  \/ \E op \in BagToSet(ops), ok \in BOOLEAN : OpUnlink(op, ok)
  \/ \E op \in BagToSet(ops), ok \in BOOLEAN : OpSave(op, ok)
  \/ \E e \in ExecIds, ok \in BOOLEAN : ExecSave0(e, ok)
  \/ \E e \in ExecIds, ok \in BOOLEAN, text \in LongPlaylists : ExecManifest(e, ok, text)
  \/ \E e \in ExecIds, ok \in BOOLEAN, data \in SegBodies : ExecSeg(e, ok, data, MSG_HTTP)
  \/ \E e \in ExecIds, ok \in BOOLEAN : ExecSegSave(e, ok)
  \/ \E e \in ExecIds, ok \in BOOLEAN : ExecWrite(e, ok)
  \/ \E e \in ExecIds, ok \in BOOLEAN : ExecSaveEnd(e, ok)

SpecBoot == InitBoot /\ [][NextBoot]_vars

(***************************************************************************)
(* decryptAES128 on its own: the arguments are drawn at the start and the  *)
(* one step applies the method to them.                                    *)
(***************************************************************************)
InitDecrypt ==
  /\ tasks = <<>>
  /\ obj = [h \in Objs |-> NoTask]
  /\ nextObj = 1
  /\ activeDownloads = [id \in Ids |-> 0]
  /\ execs = [e \in ExecIds |-> IdleExec]
  /\ nextExec = 1
  /\ ops = EmptyBag
  /\ metadataFile = <<>>
  /\ disk = [p \in Paths |-> "none"]
  /\ initPc = "ready"
  /\ nextId = 1
  /\ calls = 0
  /\ restarts = 0
  /\ ret \in {[op |-> "args", args |-> a] : a \in DecryptArgs}

DecryptCall ==
  /\ ret.op = "args"
  /\ ret' = [op |-> "decryptAES128", args |-> ret.args,
             result |-> decryptAES128(ret.args.data, ret.args.key, ret.args.iv,
                                      ret.args.segmentIndex)]
  /\ UNCHANGED <<tasks, obj, nextObj, activeDownloads, execs, nextExec, ops,
                 metadataFile, disk, initPc, nextId, calls, restarts>>

SpecDecrypt == InitDecrypt /\ [][DecryptCall]_vars

\* the steps the event loop takes by itself: every continuation that is ready
\* runs, and every request and every file operation settles one way or the other
Progress ==
  \/ InitLoad
  \/ \E op \in BagToSet(ops), ok \in BOOLEAN : OpStart(op, ok)
  \/ \E op \in BagToSet(ops), ok \in BOOLEAN : OpUnlink(op, ok)
  \/ \E op \in BagToSet(ops), ok \in BOOLEAN : OpSave(op, ok)
  \/ \E e \in ExecIds, ok \in BOOLEAN : ExecSave0(e, ok)
  \/ \E e \in ExecIds, ok \in BOOLEAN, text \in Playlists : ExecManifest(e, ok, text)
  \/ \E e \in ExecIds, ok \in BOOLEAN, text \in Playlists : ExecMedia(e, ok, text)
  \/ \E e \in ExecIds, ok \in BOOLEAN, key \in KeyBodies : ExecKey(e, ok, key, MSG_HTTP)
  \/ \E e \in ExecIds, ok \in BOOLEAN, data \in SegBodies : ExecSeg(e, ok, data, MSG_HTTP)
  \/ \E e \in ExecIds, ok \in BOOLEAN : ExecSegSave(e, ok)
  \/ \E e \in ExecIds, ok \in BOOLEAN : ExecWrite(e, ok)
  \/ \E e \in ExecIds, ok \in BOOLEAN : ExecSaveEnd(e, ok)
  \/ \E e \in ExecIds : ExecRequestError(e)
  \/ \E e \in ExecIds, is200 \in BOOLEAN, len \in 0..MaxLen : ExecResponse(e, is200, len)
  \/ \E e \in ExecIds, size \in 1..MaxLen : ExecChunk(e, size)
  \/ \E e \in ExecIds : ExecFinish(e)
  \/ \E e \in ExecIds : ExecStreamError(e)
  \/ \E e \in ExecIds : ExecResponseAborted(e)

\* Spec with an event loop that keeps running
LiveSpec == Spec /\ WF_vars(Progress)

(***************************************************************************)
(* Properties.                                                             *)
(***************************************************************************)
\* the statuses that count for the uniqueness of (source, videoId, episodeIndex)
Active == {"pending", "downloading", "completed"}

SameKey(a, b) ==
  a.source = b.source /\ a.videoId = b.videoId /\ a.episodeIndex = b.episodeIndex

\* the objects of the task map
Stored == Range(tasks)

\* C1: in every reachable state at most one stored task per
\* (source, videoId, episodeIndex) has status pending, downloading or completed.
C1_UniqueActiveKey ==
  \A h1, h2 \in Stored :
    (h1 # h2 /\ SameKey(obj[h1], obj[h2]))
      => ~(obj[h1].status \in Active /\ obj[h2].status \in Active)

\* C2: right after an addTask call: if it created a task, no other stored task
\* with the same key was pending, downloading or completed, and the new task is
\* pending under a fresh id; if it created none, the id it returned is that of a
\* stored task with this key in one of those statuses.
C2_AddTaskIdempotent ==
  ret.op = "addTask" =>
    IF ret.created
    THEN /\ \A h \in Stored :
              (obj[h].id # ret.id /\ SameKey(obj[h], ret.data))
                => obj[h].status \notin Active
         /\ \E h \in Stored : obj[h].id = ret.id /\ obj[h].status = "pending"
         /\ Cardinality({h \in Stored : obj[h].id = ret.id}) = 1
    ELSE \E h \in Stored :
           /\ obj[h].id = ret.id
           /\ SameKey(obj[h], ret.data)
           /\ obj[h].status \in Active

\* the status changes the lifecycle allows
AllowedTransitions ==
  { <<"pending", "downloading">>, <<"downloading", "completed">>,
    <<"downloading", "error">>, <<"error", "pending">> }

\* C3: the status of a task object changes only along pending -> downloading,
\* downloading -> completed, downloading -> error and error -> pending.
C3_LifecycleTransitions ==
  [][\A h \in Objs :
       (obj[h] # NoTask /\ obj'[h] # NoTask /\ obj[h].id = obj'[h].id
          /\ obj[h].status # obj'[h].status)
         => <<obj[h].status, obj'[h].status>> \in AllowedTransitions]_vars

\* C4: an execution that saw its task deleted while it was in flight ends in
\* error, and once it has ended no output file of the task is on disk.
C4_DeleteCancels ==
  \A e \in ExecIds :
    (execs[e].pc = "saveEnd" /\ execs[e].cancelled)
      => /\ obj[execs[e].task].status = "error"
         /\ disk[FilePath(obj[execs[e].task])] = "none"

\* the statuses a task is persisted with when the process stopped mid-run
Interrupted == {"pending", "downloading"}

\* the statuses an execution leaves its task in
Terminal == {"completed", "error"}

\* C5, the step of init(): every persisted task that was pending or downloading
\* is in the map as the persisted record with an execution started on it
\* (status downloading, at its first saveMetadata); every other persisted task
\* is in the map unchanged and no execution holds it.
C5_InitStep ==
  (initPc = "loading" /\ initPc' = "ready") =>
    \A k \in 1..Len(metadataFile) :
      LET rec == metadataFile[k]
          h   == MapGet(tasks', obj', rec.id)
      IN  /\ h # 0
          /\ IF rec.status \in Interrupted
             THEN /\ obj'[h] = [rec EXCEPT !.status = "downloading"]
                  /\ \E e \in ExecIds : execs'[e].task = h /\ execs'[e].pc = "save0"
             ELSE /\ obj'[h] = rec
                  /\ \A e \in ExecIds : execs'[e].task # h

\* init() has just loaded a file in which task id was pending or downloading
ResumedAtInit(id) ==
  /\ ret.op = "init"
  /\ \E k \in 1..Len(ret.file) :
       ret.file[k].id = id /\ ret.file[k].status \in Interrupted

\* some object of task id is completed or in error
Settled(id) ==
  \E h \in Objs : obj[h].id = id /\ obj[h].status \in Terminal

\* C5: at process start every persisted pending or downloading task is reset
\* and resubmitted, every completed or error task is loaded unchanged and not
\* resubmitted, and every resubmitted task eventually is completed or in error,
\* unless the process stops again before that.
C5_BootResume ==
  /\ [][C5_InitStep]_vars
  /\ \A id \in Ids : ResumedAtInit(id) ~> (Settled(id) \/ initPc = "loading")

\* C6: while the status of a task object is downloading, its progress does not
\* decrease from one state to the next.
C6_ProgressMonotone ==
  [][\A h \in Objs :
       (/\ obj[h] # NoTask /\ obj'[h] # NoTask /\ obj[h].id = obj'[h].id
        /\ obj[h].status = "downloading" /\ obj'[h].status = "downloading")
         => obj'[h].progress >= obj[h].progress]_vars

\* C7: the progress of every task, in memory and in the metadata file, is an
\* integer from 0 to 100.
C7_ProgressRange ==
  /\ \A h \in Objs : obj[h] # NoTask => obj[h].progress \in 0..100
  /\ \A k \in 1..Len(metadataFile) : metadataFile[k].progress \in 0..100

\* C7 witness: a direct-file download has received the first byte of two
C7_Witness ==
  \E e \in ExecIds :
    /\ execs[e].pc = "stream" /\ execs[e].len = 2 /\ execs[e].got = 1
    /\ obj[execs[e].task].progress = 50

\* C8: a retryTask call on an unknown id or on a downloading task reports an
\* error and changes neither the task map, the task records, the token table,
\* the executions, the pending continuations, the metadata file nor the disk.
C8_RetryRefusal ==
  [][(ret'.op = "retryTask" /\ calls' = calls + 1) =>
       LET h == MapGet(tasks, obj, ret'.id) IN
         (h = 0 \/ obj[h].status = "downloading") =>
           /\ ret'.error # NoValue
           /\ UNCHANGED <<tasks, obj, nextObj, activeDownloads, execs, nextExec, ops,
                          metadataFile, disk>>]_vars

\* C8 witness: retryTask has just been refused for a task that is downloading
\* with its token registered
C8_Witness ==
  /\ ret.op = "retryTask"
  /\ ret.error = "downloading"
  /\ activeDownloads[ret.id] # 0

\* C9: an accepted retryTask leaves the task pending with progress 0,
\* downloadedSize 0 and no error message, with the new run still to start; and
\* a run that enters the segment loop starts at the first segment.
C9_RetryRestarts ==
  [][/\ (ret'.op = "retryTask" /\ calls' = calls + 1 /\ ret'.error = NoValue) =>
          LET h == MapGet(tasks', obj', ret'.id) IN
            /\ h # 0
            /\ obj'[h].status = "pending"
            /\ obj'[h].progress = 0
            /\ obj'[h].downloadedSize = 0
            /\ obj'[h].error = NoValue
            /\ execs' = execs
            /\ \E op \in BagToSet(ops') : op.kind = "start" /\ op.task = ret'.id
     /\ \A e \in ExecIds :
          (execs[e].pc \in {"manifest", "media", "key"} /\ execs'[e].pc = "seg")
            => execs'[e].i = 0]_vars

\* C9 witness: retryTask has just been accepted for a task whose earlier run
\* had found its segments
C9_Witness ==
  /\ ret.op = "retryTask"
  /\ ret.error = NoValue
  /\ \E h \in Stored : obj[h].id = ret.id /\ obj[h].totalSize > 0

\* C10, the steps of an execution: it leaves its first saveMetadata for the
\* first request whether or not the write succeeded, the status unchanged; it
\* leaves the download only for the last saveMetadata of startDownload, with
\* the task completed and its file written or with the task in error with a
\* message, unless the process stops.
C10_ExecStep ==
  \A e \in ExecIds :
    LET h == execs[e].task IN
    /\ (execs[e].pc = "save0" /\ execs'[e].pc \notin {"save0", "idle"})
         => /\ execs'[e].pc \in {"manifest", "request"}
            /\ obj'[h].status = obj[h].status
    /\ (execs[e].pc \in InFlight /\ execs'[e].pc \notin InFlight)
         => \/ execs'[e].pc = "idle" /\ initPc' = "loading"
            \/ /\ execs'[e].pc = "saveEnd"
               /\ \/ /\ obj'[h].status = "completed"
                     /\ obj'[h].filePath # Null
                     /\ disk'[obj'[h].filePath] = "full"
                  \/ /\ obj'[h].status = "error"
                     /\ obj'[h].error # NoValue

\* C10: every execution ends with its task completed or in error: whatever
\* fails, it leaves the download only through the end of startDownload, with
\* status completed or with status error and a message, and every execution in
\* flight reaches that end unless the process stops.
C10_ExecutionEnds ==
  /\ [][C10_ExecStep]_vars
  /\ \A e \in ExecIds :
       (execs[e].pc \in InFlight) ~> (execs[e].pc \in {"saveEnd", "done", "idle"})

\* the snapshot of a pending saveMetadata holds no task with this id
SnapshotWithout(snap, id) == \A k \in 1..Len(snap) : snap[k].id # id

\* C11, the call: deleteTask on a stored task aborts the controller registered
\* for the id and removes the token; a task with a recorded output file stays
\* in the store while that file is being removed, a task without one leaves
\* the store at once and the store is persisted without it; deleteTask on an
\* unknown id changes nothing.
C11_DeleteCall ==
  (ret'.op = "deleteTask" /\ calls' = calls + 1) =>
    LET id == ret'.id
        h  == MapGet(tasks, obj, id)
    IN  IF h = 0
        THEN UNCHANGED <<tasks, obj, nextObj, activeDownloads, execs, nextExec, ops,
                         metadataFile, disk>>
        ELSE /\ activeDownloads'[id] = 0
             /\ activeDownloads[id] # 0 => execs'[activeDownloads[id]].aborted
             /\ UNCHANGED <<obj, disk, metadataFile>>
             /\ IF obj[h].filePath # Null
                THEN /\ tasks' = tasks
                     /\ \E op \in BagToSet(ops') :
                          op.kind = "unlink" /\ op.task = id /\ op.path = obj[h].filePath
                ELSE /\ MapGet(tasks', obj', id) = 0
                     /\ \E op \in BagToSet(ops') :
                          op.kind = "save" /\ op.task = id /\ SnapshotWithout(op.snap, id)

\* C11, after the removal of the file: whether unlink succeeded or failed, the
\* task leaves the store and the store is persisted without it; a successful
\* unlink leaves no file at the path.
C11_AfterUnlink ==
  \A op \in BagToSet(ops), ok \in BOOLEAN :
    (op.kind = "unlink" /\ OpUnlink(op, ok)) =>
      /\ MapGet(tasks', obj', op.task) = 0
      /\ \E sv \in BagToSet(ops') :
           sv.kind = "save" /\ sv.task = op.task /\ SnapshotWithout(sv.snap, op.task)
      /\ disk'[op.path] \in {"none", disk[op.path]}
      /\ activeDownloads' = activeDownloads

\* C11: deleteTask first aborts and removes the token, then removes the
\* recorded output file, then removes the task from the store and persists; a
\* failed file removal does not keep the task in the store; an unknown id
\* changes nothing.
C11_DeleteOrder == [][C11_DeleteCall /\ C11_AfterUnlink]_vars

\* C11 witness: the removal of a completed task's file has failed, the file is
\* still on disk, and the task has left the store with the save pending
C11_Witness ==
  \E sv \in BagToSet(ops), h \in Objs :
    /\ sv.kind = "save"
    /\ obj[h].id = sv.task
    /\ obj[h].status = "completed"
    /\ obj[h].filePath # Null
    /\ disk[obj[h].filePath] = "full"
    /\ MapGet(tasks, obj, sv.task) = 0

\* C12: getOfflineVideo returns the path <downloadDir>/<source>_<videoId>_
\* <episodeIndex>.ts exactly when a file is at that path, and nothing
\* otherwise, whatever the task store holds; it changes neither the store, the
\* token table, the executions nor the disk.
C12_ExistenceProbe ==
  [][(ret'.op = "getOfflineVideo" /\ ret' # ret) =>
       LET key  == ret'.key
           path == DownloadDir \o key.source \o <<"_">> \o key.videoId \o <<"_">>
                     \o NumberToString(key.episodeIndex) \o <<".", "t", "s">>
           onDisk == path \in DOMAIN disk /\ disk[path] \in {"partial", "full"}
       IN  /\ ret'.path = IF onDisk THEN path ELSE Null
           /\ UNCHANGED <<tasks, obj, nextObj, activeDownloads, execs, nextExec, ops,
                          metadataFile, disk>>]_vars

\* C12 witness: getOfflineVideo has returned the path of a file that is on
\* disk while no task with the key is in the store
C12_Witness ==
  /\ ret.op = "getOfflineVideo"
  /\ ret.path # Null
  /\ \A h \in Stored : ~SameKey(obj[h], ret.key)

\* the directory of an address: everything up to the last "/" of its path
Directory(url) == SubSeq(url, 1, LastSlash(url, PathEnd(url, 1)))

\* the lines of a text that are neither blank nor comments, trimmed, in order
ContentLines(text) ==
  LET lines == SplitLines(text) IN
  SelectSeq([k \in 1..Len(lines) |-> Trim(lines[k])],
            LAMBDA l : l # <<>> /\ Head(l) # "#")

\* the address a line of a playlist fetched from url stands for
LineUrl(line, url) ==
  IF IsAbsolute(line) THEN line
  ELSE IF Head(line) = "/" THEN Origin(url) \o line
  ELSE Directory(url) \o line

ExpectedUrls(text, url) ==
  LET ls == ContentLines(text) IN [k \in 1..Len(ls) |-> LineUrl(ls[k], url)]

\* C13: a media playlist body yields one segment URL per non-comment,
\* non-blank line, in line order, each absolute (absolute lines kept,
\* "/"-rooted lines against scheme and host, other lines against the
\* playlist's directory); with no such line the task fails instead of
\* completing.
C13_SegmentList ==
  [][\A e \in ExecIds, text \in ParseTexts :
       ExecManifest(e, TRUE, text) =>
         LET h    == execs[e].task
             want == ExpectedUrls(text, obj[h].url)
         IN  IF want = <<>>
             THEN /\ obj'[h].status = "error"
                  /\ obj'[h].error = MSG_NO_SEGMENTS
                  /\ execs'[e].pc = "saveEnd"
             ELSE /\ execs'[e].tsUrls = want
                  /\ \A k \in 1..Len(want) : IsAbsolute(execs'[e].tsUrls[k])
                  /\ execs'[e].pc = "seg"]_vars

\* the scheme of an address, with its colon
RECURSIVE SchemeEnd(_, _)
SchemeEnd(url, k) == IF url[k] = ":" THEN k ELSE SchemeEnd(url, k + 1)

Scheme(url) == SubSeq(url, 1, SchemeEnd(url, 1))

\* the trimmed lines of a text
TrimmedLines(text) ==
  LET lines == SplitLines(text) IN [k \in 1..Len(lines) |-> Trim(lines[k])]

IsContent(l) == l # <<>> /\ Head(l) # "#"

\* the first non-comment, non-blank line after the first stream-variant line
ExpectedReference(text) ==
  LET ls    == TrimmedLines(text)
      infs  == {k \in 1..Len(ls) : StartsWith(ls[k], STREAM_INF)}
      first == CHOOSE k \in infs : \A j \in infs : k <= j
      refs  == {k \in 1..Len(ls) : infs # {} /\ k > first /\ IsContent(ls[k])}
  IN  IF refs = {} THEN Null
      ELSE ls[CHOOSE k \in refs : \A j \in refs : k <= j]

\* a reference resolved against the address of the playlist naming it
ExpectedMediaUrl(ref, url) ==
  IF IsAbsolute(ref) THEN ref
  ELSE IF StartsWith(ref, <<"/", "/">>) THEN Scheme(url) \o ref
  ELSE IF Head(ref) = "/" THEN Origin(url) \o ref
  ELSE Directory(url) \o ref

\* the key URIs of KeyTexts resolved against the playlist's address
ExpectedKeyUrls(text, url) ==
  LET uris == KeyUris(SplitLines(text), Null) IN
  [k \in 1..Len(uris) |-> LineUrl(uris[k], url)]

\* a master playlist was answered: its reference is resolved, or the task fails
C14_MasterStep ==
  \A e \in ExecIds, text \in MasterTexts :
    ExecManifest(e, TRUE, text) =>
      LET h   == execs[e].task
          ref == ExpectedReference(text)
      IN  IF ref = Null
          THEN /\ obj'[h].status = "error"
               /\ obj'[h].error = MSG_NO_MEDIA
               /\ execs'[e].pc = "saveEnd"
          ELSE /\ execs'[e].pc = "media"
               /\ execs'[e].ref = ExpectedMediaUrl(ref, obj[h].url)

\* the media playlist was answered: the url is rewritten and everything is
\* resolved against the media playlist's own address
C14_MediaStep ==
  \A e \in ExecIds, text \in ParseTexts \cup KeyTexts :
    ExecMedia(e, TRUE, text) =>
      LET h == execs[e].task IN
      /\ obj'[h].url = execs[e].ref
      /\ ExpectedUrls(text, execs[e].ref) # <<>> =>
            /\ execs'[e].tsUrls = ExpectedUrls(text, execs[e].ref)
            /\ execs'[e].keyUrls = ExpectedKeyUrls(text, execs[e].ref)

\* C14: of a master playlist the first non-comment, non-blank line after the
\* first stream-variant line is the media playlist reference; it is resolved
\* against the master's address (absolute, scheme-relative, "/"-rooted or
\* directory-relative), the task's url becomes the resolved address, segment
\* and key URLs are resolved against the media playlist's directory; a master
\* playlist without a reference fails the task.
C14_MasterPlaylist == [][C14_MasterStep /\ C14_MediaStep]_vars

\* whether the segment step of execution x decrypts (lines 353-356)
Decrypts(x) == ~x.aesKey.null /\ x.aesMethod = AES_128

\* whether the cipher cannot be set up for execution x
CipherFails(x) == Len(x.aesKey.bytes) # 16 \/ (~x.aesIV.null /\ Len(x.aesIV.bytes) # 16)

\* C15: decryptAES128 never raises: a segment whose length is no multiple of
\* 16 is kept unchanged, a segment the cipher cannot be set up for (key or IV
\* of the wrong length) is kept as the ciphertext, and the task stays
\* downloading instead of going to error.
C15_DecryptNeverFatal ==
  [][\A e \in ExecIds, data \in CryptoSegs :
       (ExecSeg(e, TRUE, data, MSG_HTTP) /\ Decrypts(execs[e])) =>
         LET h == execs[e].task
             n == Len(execs'[e].segmentBuffers)
         IN  /\ obj'[h].status = obj[h].status
             /\ obj'[h].error = obj[h].error
             /\ execs'[e].pc = "segsave"
             /\ n = Len(execs[e].segmentBuffers) + 1
             /\ (Len(data) % 16 # 0 \/ CipherFails(execs[e])) =>
                   execs'[e].segmentBuffers[n] = Raw(data)]_vars

\* a segment of whole blocks was kept as ciphertext because the cipher could
\* not be set up, and the task is still downloading
C15_Witness ==
  \E e \in ExecIds :
    /\ execs[e].pc = "segsave"
    /\ Decrypts(execs[e]) /\ CipherFails(execs[e])
    /\ obj[execs[e].task].status = "downloading"
    /\ \E k \in 1..Len(execs[e].segmentBuffers) :
          /\ execs[e].segmentBuffers[k].kind = "raw"
          /\ Len(execs[e].segmentBuffers[k].bytes) = 16

\* the IV the method has to use for its arguments
ExpectedIv(args, iv) ==
  IF ~args.iv.null THEN iv = args.iv.bytes
  ELSE /\ Len(iv) = 16
       /\ \A k \in 1..12 : iv[k] = 0
       /\ 256 * iv[13] + iv[14] = args.segmentIndex.hi
       /\ 256 * iv[15] + iv[16] = args.segmentIndex.lo
       /\ \A k \in 13..16 : iv[k] \in 0..255

\* whether the cipher is set up for these arguments
Deciphers(args) ==
  /\ Len(args.data) % 16 = 0
  /\ Len(args.key) = 16
  /\ args.iv.null \/ Len(args.iv.bytes) = 16

\* C16: without a declared IV the IV of the segment at index i is twelve zero
\* bytes followed by i as four bytes, most significant first, for every i up
\* to 2^32 - 1; a declared IV is the IV of every segment.
C16_SegmentIv ==
  (ret.op = "decryptAES128" /\ Deciphers(ret.args)) =>
     /\ ~ret.result.threw
     /\ ret.result.value.kind = "plain"
     /\ ExpectedIv(ret.args, ret.result.value.iv)

\* index 5 without a declared IV: fifteen zero bytes and 5
C16_Witness ==
  /\ ret.op = "decryptAES128"
  /\ Deciphers(ret.args)
  /\ ret.args.iv.null
  /\ ret.args.segmentIndex = UInt32(5)
  /\ ret.result.value.iv = [k \in 1..16 |-> IF k = 16 THEN 5 ELSE 0]

\* the executions of startDownload that have begun and not ended, a stalled
\* direct download left aside
Running(e) == execs[e].pc \notin {"idle", "done", "stalled"}

\* C17: at most one execution is active for a task id at any time, whatever
\* the interleaving of addTask, retryTask and the resume at boot.
C17_OneExecutionPerTask ==
  \A e1 \in ExecIds, e2 \in ExecIds :
    (e1 # e2 /\ Running(e1) /\ Running(e2)) =>
       obj[execs[e1].task].id # obj[execs[e2].task].id

\* C18: a token is registered for an id only while the task of that id is in
\* the store with status downloading; an execution that has ended has left
\* no token behind.
C18_TokenOnlyWhileDownloading ==
  \A id \in Ids :
    activeDownloads[id] # 0 =>
      /\ MapGet(tasks, obj, id) # 0
      /\ obj[MapGet(tasks, obj, id)].status = "downloading"

\* C19: whenever a task of the store has status downloading, a token is
\* registered for its id.
C19_DownloadingHasToken ==
  \A k \in 1..Len(tasks) :
    obj[tasks[k]].status = "downloading" => activeDownloads[obj[tasks[k]].id] # 0

\* what an HLS execution whose token was aborted may still do in one step: it
\* starts no segment fetch, writes no output file, and where it ends it ends
\* in error, after a segment with the cancellation message
C20_AbortedStep(e) ==
  LET h == execs[e].task IN
  (Running(e) /\ execs[e].aborted /\ IsM3u8Url(obj[h].url) /\ execs'[e].task = h) =>
     /\ execs'[e].pc = "seg" => execs[e].pc = "seg"
     /\ execs'[e].pc = "write" => execs[e].pc = "write"
     /\ (execs[e].pc \in {"manifest", "media", "key", "seg", "segsave", "write"}
           /\ execs'[e].pc = "saveEnd") => obj'[h].status = "error"
     /\ (execs[e].pc = "segsave" /\ execs'[e].pc = "saveEnd") =>
           obj'[h].error = MSG_CANCELLED

\* C20: an HLS execution whose token is aborted before or during the fetch
\* of segment i, the last one included, fetches no segment after i, writes no
\* output file and ends in error with the cancellation message, not completed.
C20_AbortStopsHls == [][\A e \in ExecIds : C20_AbortedStep(e)]_vars

(***************************************************************************)
(* The attempts of a key or segment fetch.                                 *)
(***************************************************************************)
Fetching(x) == x.pc \in {"key", "seg"}

C21_Attempts(e) ==
  LET x == execs[e]
      y == execs'[e]
      h == x.task
  IN  /\ x.attempt \in 0..2
      \* a timer is started only after failed attempt 0 or 1, with 1000 * 2^k ms
      /\ (x.wait = 0 /\ y.wait > 0) =>
            /\ Fetching(x) /\ y.pc = x.pc /\ y.attempt = x.attempt
            /\ \/ x.attempt = 0 /\ y.wait = 1000
               \/ x.attempt = 1 /\ y.wait = 2000
      \* a further request is sent only when such a timer has fired
      /\ y.attempt > x.attempt =>
            x.wait > 0 /\ y.wait = 0 /\ y.attempt = x.attempt + 1 /\ y.pc = x.pc
      \* the call fails only with the third failure, without a wait, and the
      \* task ends in error with the error of that attempt
      /\ (Fetching(x) /\ y.pc = "saveEnd") =>
            /\ x.attempt = 2 /\ x.wait = 0 /\ y.wait = 0
            /\ obj'[h].status = "error"
      /\ \A data \in KeyBodies \cup SegBodies, err \in FetchErrors :
            (ExecKey(e, FALSE, data, err) \/ ExecSeg(e, FALSE, data, err)) =>
               obj'[h].status = "error" /\ obj'[h].error = err
      \* an attempt that answers 200 ends the call with its body
      /\ \A key \in KeyBodies :
            ExecKey(e, TRUE, key, MSG_HTTP) =>
               /\ obj'[h].status = "downloading" \/ y.pc = "saveEnd"
               /\ y.pc # "saveEnd" => y.aesKey = Buffer(key) /\ y.attempt = 0
      /\ \A data \in SegBodies :
            ExecSeg(e, TRUE, data, MSG_HTTP) =>
               /\ y.pc = "segsave" /\ obj'[h].status = "downloading"
               /\ y.segmentBuffers =
                     Append(x.segmentBuffers, SegmentBuffer(x, data).value)

\* C21: a key or segment fetch makes at most 3 GET attempts, returns the body
\* of the first attempt that answers 200, waits 1000 * 2^k ms after failed
\* attempt k = 0, 1 and not after the third failure, and after three failures
\* raises the error of the last attempt, which ends the task in error.
C21_FetchRetries == [][\A e \in ExecIds : C21_Attempts(e)]_vars

\* the third attempt of a fetch failed with a connection error after the second
\* had failed with a status other than 200: the task carries the third error
C21_Witness ==
  \E e \in ExecIds :
    /\ execs[e].pc = "saveEnd" /\ execs[e].attempt = 2
    /\ execs[e].lastError = MSG_HTTP
    /\ obj[execs[e].task].status = "error"
    /\ obj[execs[e].task].error = MSG_CONN

(***************************************************************************)
(* Transport failures of an HLS task.                                      *)
(***************************************************************************)
\* an execution in a fetch of its HLS task: fetchContent of the manifest or of
\* the media playlist, downloadSegmentToBuffer of a key or of a segment
InHlsFetch(x) == x.pc \in {"manifest", "media", "key", "seg"}

\* C22: a transport failure on any fetch of an HLS task, the manifest and the
\* media playlist of a master playlist included, becomes fatal to the task
\* only with the failure of the third attempt: one failed GET does not put the
\* task in error.
C22_TransportRetried ==
  [][\A e \in ExecIds :
       LET h == execs[e].task IN
       (/\ InHlsFetch(execs[e])
        /\ obj'[h].status = "error"
        /\ obj[h].status # "error"
        /\ obj'[h].error \in FetchErrors) => execs[e].attempt = Retries - 1]_vars

(***************************************************************************)
(* The segment loop and the output file of an HLS task, for one execution *)
(* of downloadM3u8 on a task that stays in the store.                      *)
(***************************************************************************)
\* the number of bytes of the first j buffers of list
RECURSIVE BytesBefore(_, _)
BytesBefore(list, j) ==
  IF j = 0 THEN 0 ELSE BytesBefore(list, j - 1) + Len(list[j].bytes)

\* merged holds the bytes of the buffers of list, buffer after buffer
IsConcatenation(merged, list) ==
  /\ Len(merged) = BytesBefore(list, Len(list))
  /\ \A j \in 1..Len(list) : \A k \in 1..Len(list[j].bytes) :
        merged[BytesBefore(list, j - 1) + k] =
          IF list[j].kind = "raw" THEN [raw |-> list[j].bytes[k]]
          ELSE [plain |-> k, of |-> list[j]]

C23_Step(e) ==
  LET x == execs[e]
      y == execs'[e]
      h == x.task
      N == Len(x.tsUrls)
      videoFilePath == PathJoin(DownloadDir, obj[h].source \o <<"_">> \o obj[h].videoId
                         \o <<"_">> \o NumberToString(obj[h].episodeIndex) \o DOT_TS)
  IN  \* the segment awaited is the one after those already stored
      /\ x.pc = "seg" => x.i = Len(x.segmentBuffers) /\ x.i < N /\ obj[h].totalSize = N
      \* segment i is stored: its buffer comes last, the counters are set and
      \* saveMetadata is called with the record
      /\ \A data \in CryptoSegs :
            ExecSeg(e, TRUE, data, MSG_HTTP) =>
              /\ y.segmentBuffers = Append(x.segmentBuffers, SegmentBuffer(x, data).value)
              /\ obj'[h].downloadedSize = x.i + 1
              /\ obj'[h].totalSize = N
              /\ y.pc = "segsave"
              /\ \E k \in 1..Len(y.snap) :
                    /\ y.snap[k].id = obj[h].id
                    /\ y.snap[k].downloadedSize = x.i + 1
                    /\ y.snap[k].totalSize = N
      \* the write of that record lands before the next segment is fetched
      /\ ExecSegSave(e, TRUE) => metadataFile' = x.snap
      /\ (x.pc = "segsave" /\ y.pc = "seg") => y.i = x.i + 1
      \* the file is written once, after the last segment, with all buffers
      /\ (x.pc # "write" /\ y.pc = "write") =>
            /\ x.pc = "segsave"
            /\ Len(x.segmentBuffers) = N /\ x.i = N - 1
            /\ IsConcatenation(y.mergedBuffer, x.segmentBuffers)
      /\ x.pc \in {"saveEnd", "done"} => y.pc # "write"
      /\ x.pc = "write" => y.pc \in {"write", "saveEnd"} /\ y.mergedBuffer = x.mergedBuffer
      /\ disk'[videoFilePath] # disk[videoFilePath] =>
            \/ x.pc = "segsave" /\ y.pc = "write"
            \/ ExecWrite(e, TRUE)

\* C23: the segments of an HLS task are fetched one after another in manifest
\* order; after segment i is stored downloadedSize = i + 1, totalSize = N and
\* the record is saved; the output file is written once, after all N segments,
\* with the concatenation of the N (decrypted) buffers in manifest order.
C23_SegmentLoop == [][C23_Step(1)]_vars

\* a two-segment task completed, with segments of different bodies
C23_Witness ==
  /\ execs[1].pc = "saveEnd"
  /\ obj[execs[1].task].status = "completed"
  /\ obj[execs[1].task].downloadedSize = 2
  /\ Len(execs[1].segmentBuffers) = 2
  /\ execs[1].segmentBuffers[1] # execs[1].segmentBuffers[2]
  /\ \E p \in Paths : disk[p] = "full"

(***************************************************************************)
(* The persisted file against the in-memory map.                           *)
(***************************************************************************)
\* no call, continuation, execution or load is in progress
Quiescent ==
  /\ initPc = "ready"
  /\ ops = EmptyBag
  /\ \A e \in ExecIds : execs[e].pc \in {"idle", "done"}

\* C24: whenever no operation and no metadata write is in progress, the
\* persisted file holds exactly the tasks of the in-memory map with their
\* current fields.
C24_FileMatchesMap == Quiescent => metadataFile = Snapshot(tasks, obj)

(***************************************************************************)
(* Fields tied to the status of a task of the store.                       *)
(***************************************************************************)
\* C25: a task carries an error message only when its status is error.
C25_ErrorOnlyInError ==
  \A k \in 1..Len(tasks) :
    obj[tasks[k]].status # "error" => obj[tasks[k]].error = NoValue

\* C26: a task whose status is completed has progress 100 and a filePath, and
\* no later event changes the progress of a completed task.
C26_CompletedStaysFull ==
  [][\A h \in Objs :
       /\ (obj'[h].id # 0 /\ obj'[h].status = "completed") =>
             obj'[h].progress = 100 /\ obj'[h].filePath # Null
       /\ (obj[h].id # 0 /\ obj'[h].id # 0 /\ obj[h].status = "completed"
              /\ obj'[h].status = "completed") =>
             obj'[h].progress = obj[h].progress]_vars

(***************************************************************************)
(* Identity of a task and the name of its file.                            *)
(***************************************************************************)
\* `${source}_${videoId}_${episodeIndex}.ts`
DerivedName(task) ==
  task.source \o <<"_">> \o task.videoId \o <<"_">>
    \o NumberToString(task.episodeIndex) \o <<".","t","s">>

C27_Identity(h) ==
  (obj[h].id # 0 /\ obj'[h].id # 0) =>
     /\ obj'[h].id = obj[h].id
     /\ obj'[h].source = obj[h].source
     /\ obj'[h].videoId = obj[h].videoId
     /\ obj'[h].episodeIndex = obj[h].episodeIndex
     /\ obj'[h].createdAt = obj[h].createdAt
     /\ obj'[h].fileName = obj[h].fileName

C27_Names ==
  /\ \A h \in Objs : obj'[h].id # 0 =>
        /\ obj'[h].fileName = DerivedName(obj'[h])
        /\ \A g \in Objs \ {h} : obj'[g].id # obj'[h].id
  /\ \A k \in 1..Len(metadataFile') :
        metadataFile'[k].fileName = DerivedName(metadataFile'[k])
  \* a file that is created or completed is the file of a running execution
  /\ \A path \in Paths :
        (disk'[path] # disk[path] /\ disk'[path] # "none") =>
           \E e \in ExecIds :
              /\ execs[e].task # 0
              /\ path = DownloadDir \o DerivedName(obj[execs[e].task])
  \* the path getOfflineVideo computes for the key of a task (lines 544-545)
  \* is the path of the file of the task
  /\ \A h \in Objs : obj'[h].id # 0 =>
        PathJoin(DownloadDir, generateFileName(obj'[h].source, obj'[h].videoId,
                                               obj'[h].episodeIndex))
          = DownloadDir \o obj'[h].fileName

\* C27: no operation changes the id, source, videoId, episodeIndex, createdAt
\* or fileName of an existing task; ids of distinct tasks are distinct; fileName
\* is the name derived from (source, videoId, episodeIndex), which is the name
\* of the file the HLS and direct-file paths write and getOfflineVideo probes.
C27_IdentityFrame == [][(\A h \in Objs : C27_Identity(h)) /\ C27_Names]_vars

\* an HLS task and a direct-file task are in the store, both completed, each
\* with its file on disk
C27_Witness ==
  /\ Len(tasks) = 2
  /\ \E k \in 1..2 : IsM3u8Url(obj[tasks[k]].url)
  /\ \E k \in 1..2 : ~IsM3u8Url(obj[tasks[k]].url)
  /\ \A k \in 1..2 :
        /\ obj[tasks[k]].status = "completed"
        /\ disk[DownloadDir \o obj[tasks[k]].fileName] = "full"

(***************************************************************************)
(* Output files on disk.                                                   *)
(***************************************************************************)
\* the tasks of the store in status completed whose file is whole on disk
CompletedOnDisk ==
  {h \in Range(tasks) : /\ obj[h].status = "completed"
                        /\ obj[h].filePath \in Paths
                        /\ disk[obj[h].filePath] = "full"}

\* C28: the output file of a task of the store whose status is completed
\* stays on disk, whole, through every step of deleteTask on another task, an
\* older task in error with the same key and a leftover filePath included.
C28_CompletedFileKept ==
  [][\A op \in BagToSet(ops), ok \in BOOLEAN :
       (op.kind = "unlink" /\ OpUnlink(op, ok)) =>
          \A h \in CompletedOnDisk :
             obj[h].id # op.task => disk'[obj[h].filePath] = "full"]_vars

\* C29: getOfflineVideo returns a path for a key only when the file at that
\* path holds a fully downloaded title: the file the probe looks for is never
\* on disk in part, neither during a download nor after one that failed or was
\* cancelled part-way.
C29_ProbeOnlyWhole ==
  \A key \in ProbeKeys :
    LET filePath == PathJoin(DownloadDir,
                             generateFileName(key.source, key.videoId, key.episodeIndex))
    IN  ExistsSync(filePath) => disk[filePath] = "full"

(***************************************************************************)
(* Calls made while init() is loading the metadata file.                   *)
(***************************************************************************)
\* the tasks of a persisted collection that have the key of taskData and a
\* status for which addTask returns the existing task
Duplicated(file, taskData) ==
  {k \in 1..Len(file) : /\ file[k].source = taskData.source
                         /\ file[k].videoId = taskData.videoId
                         /\ file[k].episodeIndex = taskData.episodeIndex
                         /\ file[k].status \in {"completed", "downloading", "pending"}}

\* C30: the tasks persisted before a restart are in the store once init() has
\* finished, also when the manager is called while init() is loading: such a
\* call does not overwrite the file with a collection that lacks them and
\* does not create a task that the dedup rule would have answered with one of
\* them.
C30_LoadingIsSafe ==
  [][initPc = "loading" =>
       \* the file keeps the persisted tasks until they are loaded
       /\ \A k \in 1..Len(metadataFile) :
             \E j \in 1..Len(metadataFile') : metadataFile'[j].id = metadataFile[k].id
       \* the load brings every persisted task into the store
       /\ initPc' = "ready" =>
             \A k \in 1..Len(metadataFile) :
               MapGet(tasks', obj', metadataFile[k].id) # 0
       \* addTask for the key of a persisted task answers with that task
       /\ (ret'.op = "addTask" /\ calls' = calls + 1
              /\ Duplicated(metadataFile, ret'.data) # {}) =>
             /\ ~ret'.created
             /\ \E k \in Duplicated(metadataFile, ret'.data) :
                   ret'.id = metadataFile[k].id]_vars

====
